---- MODULE Spec2Model ----
(***************************************************************************)
(* Model of the query execution orchestrator (FlinkQueryRunner) and of its *)
(* caller (QueryCell).  A runner is an object whose methods are async      *)
(* functions: every action below resumes one coroutine at the await it is  *)
(* suspended on and runs it, as one atomic step of the single JavaScript   *)
(* thread, up to its next await or its end.                                *)
(***************************************************************************)
EXTENDS Integers, Sequences, FiniteSets, TLC

VARIABLES
    rn,      \* rn[r]: the fields of runner instance r
    co,      \* co[r][k]: the k-th accepted execute/executeAll call of r (a coroutine)
    cc,      \* cc[r][c]: the c-th cancel() call of r that entered performCancel
    fired,   \* the callbacks and transport requests issued by the last step, in order
    obs,     \* obs[r]: what an observer of r's callbacks and requests has seen
    cell,    \* the refs and UI state of the QueryCell that owns the runners
    gc,      \* the fields of a GatewayConnection and its place in the registry
    calls,   \* calls[c]: a call of an async method of the connection at an await
    gateway, \* the sessions of the SQL gateway behind the connection
    mgr,     \* the fields of the ConnectionManager
    storage  \* localStorage: the two keys the ConnectionManager writes

vars == <<rn, co, cc, fired, obs, cell, gc, calls, gateway, mgr, storage>>

runVars == <<rn, co, cc, obs, cell>>
regVars == <<mgr, storage>>
connVars == <<gc, calls, gateway, mgr, storage>>

\* ---------------------------------------------------------------- constants
MAX_ROWS == 10000
POLL_BACKOFF_STEP_MS == 100
POLL_BACKOFF_MAX_MS == 2000
MAX_SESSION_RETRIES == 1

\* ------------------------------------------------------------------- bounds
MaxRuns == 2        \* execute/executeAll coroutines a runner instance can hold
MaxCancels == 1     \* cancel() calls per runner that enter the cancellation protocol
MaxStmts == 2       \* statements in a chain
MaxPolls == 2       \* result pages (or not-ready answers) a statement is answered with
MaxTabs == 2        \* tabs that hold a session on the connection
MaxCalls == 3       \* calls of the connection's methods (timer ticks included)
MaxConns == 3       \* connections the registry makes
MaxOpens == 3       \* sessions the gateway opens for the connection
MaxPages == 22      \* answers to the polls of a statement when the gateway is slow

\* A query cell constructs a runner per run: the first and one per retry.
Runners == 1..(MAX_SESSION_RETRIES + 1)
RunIds == 1..MaxRuns
CancelIds == 1..MaxCancels

Min(a, b) == IF a < b THEN a ELSE b
Max(a, b) == IF a > b THEN a ELSE b

\* ------------------------------------------------------------ runner fields
QueryState == {"IDLE", "SUBMITTING", "RUNNING", "FINISHED", "FAILED", "CANCELLING", "CANCELLED"}
Terminal == {"FINISHED", "FAILED", "CANCELLED"}

\* Handles and controllers are numbers, 0 is null.  hasHook / hasWarning say
\* whether the optional callbacks onSessionExpired / onWarning were supplied;
\* callbacks says whose they are: "caller" (any caller) or "QueryCell".
NewRunner(hook, warn) ==
    [state |-> "IDLE", operationHandle |-> 0, jobId |-> 0, allRows |-> 0,
     columns |-> 0, cancelRequested |-> FALSE, submitAbortController |-> 0,
     fetchAbortController |-> 0, isQueryResultReported |-> FALSE,
     multiStatementIndex |-> 0, multiStatementTotal |-> 0,
     hasHook |-> hook, hasWarning |-> warn, callbacks |-> "caller"]

isRunning(f) == f.state \in {"SUBMITTING", "RUNNING", "CANCELLING"}

\* An observable effect of a step: a callback invocation or a transport request.
Ev(cb, s, a, b) == [cb |-> cb, s |-> s, a |-> a, b |-> b]

\* A machine m is the runner under a step: its fields f and the effects ev so far.
Emit(m, e) == [m EXCEPT !.ev = Append(@, e)]

setState(m, s) == Emit([m EXCEPT !.f.state = s], Ev("onStateChange", s, 0, 0))

reset(f) ==
    [f EXCEPT !.operationHandle = 0, !.jobId = 0, !.allRows = 0, !.columns = 0,
              !.cancelRequested = FALSE, !.submitAbortController = 0,
              !.fetchAbortController = 0, !.isQueryResultReported = FALSE,
              !.multiStatementIndex = 0, !.multiStatementTotal = 0,
              !.state = "IDLE"]

\* ------------------------------------------------------------ error handling
\* err is the classification of a rejected request: "generic", "expired"
\* (FlinkSqlGatewayError.sessionExpired) or "abort" (request was cancelled).
\* The event of onSessionExpired records what getState() gives inside it.
isSessionExpired(err) == err = "expired"

handleErrorMessage(m, err) ==
    IF m.f.multiStatementTotal > 1
    THEN Emit(m, Ev("onError", err, m.f.multiStatementIndex + 1, m.f.multiStatementTotal))
    ELSE Emit(m, Ev("onError", err, 0, 0))

handleError(m, err) ==
    IF isSessionExpired(err) /\ m.f.hasHook
    THEN LET m1 == [m EXCEPT !.f.state = "IDLE"]
         IN  Emit(m1, Ev("onSessionExpired", m1.f.state, 0, 0))
    ELSE setState(handleErrorMessage(m, err), "FAILED")

\* ---------------------------------------------------------------- coroutines
\* pc: "none" (not started), "submit", "fetch", "sleep" (the await it is at),
\* "pc_cancel", "pc_stop", "pc_close" (the awaits of performCancel), "done".
NoCo ==
    [id |-> 0, pc |-> "none", mode |-> "single", n |-> 0, i |-> 0, token |-> 0,
     backoffMs |-> 0, sigAborted |-> FALSE, reqAborted |-> FALSE, reqOp |-> 0,
     ret |-> "", polls |-> 0]

Done(c) == [c EXCEPT !.pc = "done"]

R(m, c) == [m |-> m, c |-> c]

\* The operation handle the gateway answers the submit of statement i (0-based)
\* of coroutine k with: a fresh handle per submitted statement.
HandleOf(k, i) == (k - 1) * MaxStmts + i + 1

\* Mutant of ChainIterBody: the job id of the former statement is kept.
ChainIterBody_KeepsJob(m, c) ==
    LET m1 == Emit([m EXCEPT !.f.multiStatementIndex = c.i],
                   Ev("onStatementProgress", "", c.i + 1, c.n))
        m2 == [m1 EXCEPT !.f.operationHandle = 0, !.f.allRows = 0,
                         !.f.columns = 0, !.f.submitAbortController = 0,
                         !.f.fetchAbortController = 0,
                         !.f.isQueryResultReported = FALSE,
                         !.ev = @ \o << Ev("onColumnsReceived", "", 0, 0),
                                        Ev("onRowsReceived", "", 0, 0),
                                        Ev("onJobId", "", 0, 0),
                                        Ev("onIsQueryResult", "", 1, 0) >>]
        m3 == setState(m2, "SUBMITTING")
        m4 == Emit([m3 EXCEPT !.f.submitAbortController = c.id],
                   Ev("executeStatement", "", c.i + 1, c.n))
    IN  R(m4, [c EXCEPT !.pc = "submit", !.reqAborted = FALSE])

\* executeAll, the body of the for loop after the cancellation check, up to the
\* await of executeStatement.
ChainIterBody(m, c) ==
    LET m1 == Emit([m EXCEPT !.f.multiStatementIndex = c.i],
                   Ev("onStatementProgress", "", c.i + 1, c.n))
        m2 == [m1 EXCEPT !.f.operationHandle = 0, !.f.jobId = 0, !.f.allRows = 0,
                         !.f.columns = 0, !.f.submitAbortController = 0,
                         !.f.fetchAbortController = 0,
                         !.f.isQueryResultReported = FALSE,
                         !.ev = @ \o << Ev("onColumnsReceived", "", 0, 0),
                                        Ev("onRowsReceived", "", 0, 0),
                                        Ev("onJobId", "", 0, 0),
                                        Ev("onIsQueryResult", "", 1, 0) >>]
        m3 == setState(m2, "SUBMITTING")
        m4 == Emit([m3 EXCEPT !.f.submitAbortController = c.id],
                   Ev("executeStatement", "", c.i + 1, c.n))
    IN  R(m4, [c EXCEPT !.pc = "submit", !.reqAborted = FALSE])

\* Mutant of ChainIter: the loop does not look at cancelRequested.
ChainIter_NoCancelCheck(m, c) == ChainIterBody(m, c)

\* executeAll, one pass of the for loop from its head for statement c.i.
ChainIter(m, c) ==
    IF m.f.cancelRequested
    THEN R(setState(m, "CANCELLED"), Done(c))
    ELSE ChainIterBody(m, c)

\* Mutant of ChainLoop: no progress notification after the loop.
ChainLoop_NoFinalProgress(m, c) ==
    IF c.i < c.n
    THEN ChainIter(m, c)
    ELSE R([m EXCEPT !.f.multiStatementIndex = c.n - 1], Done(c))

\* executeAll, the loop condition and what follows the loop.
ChainLoop(m, c) ==
    IF c.i < c.n
    THEN ChainIter(m, c)
    ELSE R(Emit([m EXCEPT !.f.multiStatementIndex = c.n - 1],
                Ev("onStatementProgress", "", c.n, c.n)),
           Done(c))

\* Mutant of AfterFetch: the chain goes on whatever the state.
AfterFetch_NoStop(m, c) ==
    IF c.mode = "single"
    THEN R(m, Done(c))
    ELSE ChainLoop(m, [c EXCEPT !.i = @ + 1])

\* What execute / executeAll do when fetchResults has returned.
AfterFetch(m, c) ==
    IF c.mode = "single"
    THEN R(m, Done(c))
    ELSE IF m.f.state \in {"FAILED", "CANCELLED"}
         THEN R(m, Done(c))
         ELSE ChainLoop(m, [c EXCEPT !.i = @ + 1])

\* Where performCancel returns to in a run coroutine: "submit" (cancelled while
\* submitting: execute returns), "top" (head of the poll loop: fetchResults
\* returns), "trunc" (row cap hit: FINISHED, then fetchResults returns).
AfterPerformCancel(m, c) ==
    CASE c.ret = "submit" -> R(m, Done(c))
      [] c.ret = "top" -> AfterFetch(m, c)
      [] c.ret = "trunc" -> AfterFetch(setState(m, "FINISHED"), c)

\* performCancel up to its first await; pcq is the await reached ("pc_done":
\* it returned at once because there is no operation handle).
performCancelStart(m) ==
    IF m.f.operationHandle = 0
    THEN [m |-> m, pcq |-> "pc_done"]
    ELSE [m |-> Emit(setState(m, "CANCELLING"),
                     Ev("cancelOperation", "", m.f.operationHandle, 0)),
          pcq |-> "pc_cancel"]

\* Mutant of performCancelStep: closeOperation is not requested.
performCancelStep_NoClose(m, pcq) ==
    CASE pcq = "pc_cancel" ->
           IF m.f.jobId # 0
           THEN [m |-> Emit(m, Ev("stopJob", "", m.f.jobId, 0)), pcq |-> "pc_stop"]
           ELSE [m |-> setState(m, "CANCELLED"), pcq |-> "pc_done"]
      [] pcq = "pc_stop" -> [m |-> setState(m, "CANCELLED"), pcq |-> "pc_done"]
      [] pcq = "pc_close" -> [m |-> setState(m, "CANCELLED"), pcq |-> "pc_done"]

\* Mutant of performCancelStep: the protocol ends without a state change.
performCancelStep_StaysCancelling(m, pcq) ==
    CASE pcq = "pc_cancel" ->
           IF m.f.jobId # 0
           THEN [m |-> Emit(m, Ev("stopJob", "", m.f.jobId, 0)), pcq |-> "pc_stop"]
           ELSE [m |-> Emit(m, Ev("closeOperation", "", m.f.operationHandle, 0)),
                 pcq |-> "pc_close"]
      [] pcq = "pc_stop" ->
           [m |-> Emit(m, Ev("closeOperation", "", m.f.operationHandle, 0)),
            pcq |-> "pc_close"]
      [] pcq = "pc_close" -> [m |-> m, pcq |-> "pc_done"]

\* performCancel resumed at await pcq; the request it awaited has resolved or
\* was rejected, which the code does not tell apart.
performCancelStep(m, pcq) ==
    CASE pcq = "pc_cancel" ->
           IF m.f.jobId # 0
           THEN [m |-> Emit(m, Ev("stopJob", "", m.f.jobId, 0)), pcq |-> "pc_stop"]
           ELSE [m |-> Emit(m, Ev("closeOperation", "", m.f.operationHandle, 0)),
                 pcq |-> "pc_close"]
      [] pcq = "pc_stop" ->
           [m |-> Emit(m, Ev("closeOperation", "", m.f.operationHandle, 0)),
            pcq |-> "pc_close"]
      [] pcq = "pc_close" ->
           [m |-> setState(m, "CANCELLED"), pcq |-> "pc_done"]

\* The try blocks around an await, innermost first.  site: the await ("submit",
\* "fetch", "sleep", "pc_cancel", "pc_stop", "pc_close"); inRun: the await is
\* reached from execute / executeAll (else from cancel()).  "step": the try
\* around each request of performCancel; "poll": the try around the poll;
\* "run": the try of execute / executeAll.
Tries_StepUncaught(site, inRun) ==
    (IF site = "fetch" THEN << "poll" >> ELSE << >>)
        \o (IF inRun THEN << "run" >> ELSE << >>)

Tries(site, inRun) ==
    (IF site \in {"pc_cancel", "pc_stop", "pc_close"} THEN << "step" >>
     ELSE IF site = "fetch" THEN << "poll" >>
     ELSE << >>)
        \o (IF inRun THEN << "run" >> ELSE << >>)

\* The catch that takes a rejection of the request awaited at site: "none"
\* when no try encloses it, which rejects the promise of the async method.
CatchOf(site, inRun) ==
    IF Tries(site, inRun) = << >> THEN "none" ELSE Head(Tries(site, inRun))

\* Mutant of performCancelSettled: a rejected request ends the protocol.
performCancelSettled_FailSkips(m, pcq, ok, inRun) ==
    IF ok THEN performCancelStep(m, pcq)
    ELSE [m |-> setState(m, "CANCELLED"), pcq |-> "pc_done"]

\* performCancel resumed at await pcq with its request resolved (ok) or
\* rejected: each request has its own try with an empty catch.
performCancelSettled(m, pcq, ok, inRun) ==
    IF ok \/ CatchOf(pcq, inRun) = "step"
    THEN performCancelStep(m, pcq)
    ELSE [m |-> m, pcq |-> "rejected"]

\* A run coroutine calls performCancel and awaits it.
CallPerformCancel(m, c, ret) ==
    LET p == performCancelStart(m)
        c1 == [c EXCEPT !.ret = ret]
    IN  IF p.pcq = "pc_done"
        THEN AfterPerformCancel(p.m, c1)
        ELSE R(p.m, [c1 EXCEPT !.pc = p.pcq])

\* fetchResults, the head of the while loop up to the await of the poll.
FetchLoopTop(m, c) ==
    IF m.f.cancelRequested
    THEN CallPerformCancel(m, c, "top")
    ELSE R(Emit(m, Ev("fetchResults", "", m.f.operationHandle, c.token)),
           [c EXCEPT !.pc = "fetch", !.reqAborted = c.sigAborted,
                     !.reqOp = m.f.operationHandle])

\* fetchResults from its entry.
fetchResults(m, c) ==
    IF m.f.operationHandle = 0
    THEN AfterFetch(m, c)
    ELSE FetchLoopTop([m EXCEPT !.f.fetchAbortController = c.id],
                      [c EXCEPT !.sigAborted = FALSE, !.token = 0, !.backoffMs = 0,
                                !.polls = 0])

\* --------------------------------------------------------------- result pages
\* A page (FetchResultsResponseBody): resultType; hasResults (the results field
\* is present); cols (0: no column list, else the schema it carries); job (a
\* jobID is present); isQuery; rows (the length of results.data, -1: no data
\* field); next (nextResultUri).
Page(type, hasResults, cols, job, isQuery, rows, next) ==
    [type |-> type, hasResults |-> hasResults, cols |-> cols, job |-> job,
     isQuery |-> isQuery, rows |-> rows, next |-> next]

\* nextResultUri: "" (kind "empty"), a URI holding /result/<n> (kind "result"),
\* or any other text (kind "other").
Uri(kind, n) == [kind |-> kind, n |-> n]

\* Mutant of parseNextToken: the URI is not read.
parseNextToken_Increment(nextResultUri, currentToken) == currentToken + 1

parseNextToken(nextResultUri, currentToken) ==
    IF nextResultUri.kind = "empty" THEN currentToken + 1
    ELSE IF nextResultUri.kind = "result" THEN nextResultUri.n
    ELSE currentToken + 1

\* Mutant of SliceLen: the page is not cut.
SliceLen_NoCut(len, end) == len

\* Array.prototype.slice(0, end) of an array of length len: the length of the result.
SliceLen(len, end) ==
    IF end >= 0 THEN Min(len, end) ELSE Max(len + end, 0)

\* Mutant of Backoff: no maximum.
Backoff_NoCap(c) ==
    [c EXCEPT !.backoffMs = @ + POLL_BACKOFF_STEP_MS, !.pc = "sleep"]

\* The delay of the next sleep, and the coroutine at that sleep.
Backoff(c) ==
    [c EXCEPT !.backoffMs = Min(@ + POLL_BACKOFF_STEP_MS, POLL_BACKOFF_MAX_MS),
              !.pc = "sleep"]

\* The row cap is hit: the page is cut to the space left, the notice is given
\* through onWarning when supplied and through onError otherwise.
Truncate(m, c, newRows, spaceLeft) ==
    LET len == m.f.allRows + SliceLen(newRows, spaceLeft)
        m1 == Emit([m EXCEPT !.f.allRows = len], Ev("onRowsReceived", "", len, len))
        m2 == Emit(m1, Ev(IF m.f.hasWarning THEN "onWarning" ELSE "onError",
                          "trimmed", 0, 0))
    IN  CallPerformCancel(m2, c, "trunc")

\* PAYLOAD with data that fits: the rows are appended and handed to the caller.
Accumulate(m, newRows) ==
    LET len == m.f.allRows + newRows
    IN  Emit([m EXCEPT !.f.allRows = len], Ev("onRowsReceived", "", len, len))

\* Mutant of ProcessPage: every column list is taken.
ProcessPage_Redefines(m, c, p) ==
    IF ~p.hasResults
    THEN R(m, Backoff(c))
    ELSE
    LET m1 == IF p.cols # 0
              THEN Emit([m EXCEPT !.f.columns = p.cols],
                        Ev("onColumnsReceived", "", p.cols, 0))
              ELSE m
        m2 == IF p.job
              THEN Emit([m1 EXCEPT !.f.jobId = c.reqOp], Ev("onJobId", "", c.reqOp, 0))
              ELSE m1
        m3 == IF ~m2.f.isQueryResultReported /\ p.type = "PAYLOAD"
              THEN Emit([m2 EXCEPT !.f.isQueryResultReported = TRUE],
                        Ev("onIsQueryResult", "", IF p.isQuery THEN 1 ELSE 0, 0))
              ELSE m2
        spaceLeft == MAX_ROWS - m3.f.allRows
        hasData == p.type = "PAYLOAD" /\ p.rows >= 0
        m4 == IF hasData THEN Accumulate(m3, p.rows) ELSE m3
        c4 == IF hasData THEN [c EXCEPT !.backoffMs = 0] ELSE c
    IN  IF p.type = "NOT_READY"
        THEN R(m3, Backoff(c))
        ELSE IF hasData /\ p.rows > spaceLeft
        THEN Truncate(m3, c, p.rows, spaceLeft)
        ELSE IF p.type = "EOS"
        THEN AfterFetch(setState(m4, "FINISHED"), c4)
        ELSE FetchLoopTop(m4, [c4 EXCEPT !.token = parseNextToken(p.next, @)])

\* fetchResults resumed with page p: the body of the while loop after the poll.
ProcessPage(m, c, p) ==
    IF ~p.hasResults
    THEN R(m, Backoff(c))
    ELSE
    LET m1 == IF p.cols # 0 /\ m.f.columns = 0
              THEN Emit([m EXCEPT !.f.columns = p.cols],
                        Ev("onColumnsReceived", "", p.cols, 0))
              ELSE m
        m2 == IF p.job
              THEN Emit([m1 EXCEPT !.f.jobId = c.reqOp], Ev("onJobId", "", c.reqOp, 0))
              ELSE m1
        m3 == IF ~m2.f.isQueryResultReported /\ p.type = "PAYLOAD"
              THEN Emit([m2 EXCEPT !.f.isQueryResultReported = TRUE],
                        Ev("onIsQueryResult", "", IF p.isQuery THEN 1 ELSE 0, 0))
              ELSE m2
        spaceLeft == MAX_ROWS - m3.f.allRows
        hasData == p.type = "PAYLOAD" /\ p.rows >= 0
        m4 == IF hasData THEN Accumulate(m3, p.rows) ELSE m3
        c4 == IF hasData THEN [c EXCEPT !.backoffMs = 0] ELSE c
    IN  IF p.type = "NOT_READY"
        THEN R(m3, Backoff(c))
        ELSE IF hasData /\ p.rows > spaceLeft
        THEN Truncate(m3, c, p.rows, spaceLeft)
        ELSE IF p.type = "EOS"
        THEN AfterFetch(setState(m4, "FINISHED"), c4)
        ELSE FetchLoopTop(m4, [c4 EXCEPT !.token = parseNextToken(p.next, @)])

\* Mutant of FetchRejected: the catch does not look at cancelRequested.
FetchRejected_IgnoresCancel(m, c, err) ==
    IF m.f.allRows > 0
    THEN AfterFetch(setState(handleErrorMessage(m, err), "FINISHED"), c)
    ELSE AfterFetch(handleError(m, err), c)

\* fetchResults resumed with the poll rejected with err.
FetchRejected(m, c, err) ==
    IF m.f.cancelRequested
    THEN AfterFetch(m, c)
    ELSE IF m.f.allRows > 0
    THEN AfterFetch(setState(handleErrorMessage(m, err), "FINISHED"), c)
    ELSE AfterFetch(handleError(m, err), c)

\* execute / executeAll resumed with the submit resolved with handle h.
SubmitResolved(m, c, h) ==
    LET m1 == [m EXCEPT !.f.submitAbortController = 0, !.f.operationHandle = h]
    IN  IF m1.f.cancelRequested
        THEN CallPerformCancel(m1, c, "submit")
        ELSE fetchResults(setState(m1, "RUNNING"), c)

\* execute / executeAll resumed with the submit rejected with err (the catch).
SubmitRejected(m, c, err) ==
    IF m.f.cancelRequested
    THEN R(setState(m, "CANCELLED"), Done(c))
    ELSE IF c.mode = "single"
    THEN R(handleError(m, err), Done(c))
    ELSE IF isSessionExpired(err) /\ m.f.hasHook
    THEN LET m1 == [m EXCEPT !.f.state = "IDLE"]
         IN  R(Emit(m1, Ev("onSessionExpired", m1.f.state, 0, 0)), Done(c))
    ELSE R(setState(Emit(m, Ev("onError", err, c.i + 1, c.n)), "FAILED"), Done(c))

\* The promise of the async method is rejected.
Rejected(c) == [c EXCEPT !.pc = "rejected"]

\* A rejection reaches run coroutine c at await site: the catch of the
\* innermost try around it runs.
Thrown(m, c, err, site) ==
    CASE CatchOf(site, TRUE) = "poll" -> FetchRejected(m, c, err)
      [] CatchOf(site, TRUE) = "run" -> SubmitRejected(m, c, err)
      [] OTHER -> R(m, Rejected(c))

\* execute(statement) past its guard, as coroutine k.
executeStart(f, k) ==
    LET m1 == setState([f |-> reset(f), ev |-> << >>], "SUBMITTING")
        m2 == Emit([m1 EXCEPT !.f.submitAbortController = k],
                   Ev("executeStatement", "", 1, 1))
    IN  R(m2, [NoCo EXCEPT !.id = k, !.pc = "submit", !.mode = "single", !.n = 1])

\* A call that returns at its guard: no field changes, no effect, no coroutine
\* left at an await.
Ignored(f) == R([f |-> f, ev |-> << >>], NoCo)

\* Mutant of execute: no isRunning guard.
execute_NoGuard(f, k) == executeStart(f, k)

\* execute(statement), as coroutine k when it is accepted.
execute(f, k) == IF isRunning(f) THEN Ignored(f) ELSE executeStart(f, k)

\* executeAll(statements) with n statements, as coroutine k when it is accepted.
executeAll(f, k, n) ==
    IF isRunning(f) \/ n = 0
    THEN Ignored(f)
    ELSE IF n = 1
    THEN execute(f, k)
    ELSE ChainLoop([f |-> [reset(f) EXCEPT !.multiStatementTotal = n], ev |-> << >>],
                   [NoCo EXCEPT !.id = k, !.mode = "chain", !.n = n])

\* ------------------------------------------------------------------ observer
Handles == 0..(MaxRuns * MaxStmts)

\* What the observer of a runner keeps of the effects it has seen:
\*   nRuns, nCancels   accepted execute/executeAll calls; cancel() calls that
\*                     entered the cancellation protocol
\*   expired           a request was rejected as session-expired
\*   dirty             a request was rejected or cancel() was called
\*   armed             cancel() was called in state SUBMITTING or RUNNING
\*   cancelled         cancel() was called while running
\*   termAfterCancel   terminal states notified since the first such cancel()
\*   cancelOps, closeOps   cancelOperation / closeOperation requests per handle
\*   hooked, afterHook     onSessionExpired was invoked; and after it the runner
\*                         submitted, reported progress, invoked it again or
\*                         changed state
\*   progress          the (current, total) pairs given to onStatementProgress
\*   curOp             the operation last polled
\*   truncs, truncOp   truncation notices per operation; the operation last cut
\*   pollAfterTrunc    an operation was polled after its truncation notice
\*   truncRun, truncErr   truncation notices of the run; one went to onError
\*   stmts             the number of statements given to executeAll (0: none)
\*   cancelStmt        the statement (1-based) during which cancel() was first
\*                     called in state SUBMITTING or RUNNING (0: not called)
\*   lateSubmit, lateProgress   after that cancel() a statement was submitted;
\*                     progress was reported for a later statement
\*   cancelOp          per cancel() that entered the protocol, the operation
\*                     handle it found
\*   notReady          the not-ready answers (NOT_READY, or no results field) to
\*                     the polls of the statement since its last page with data
NewObs ==
    [nRuns |-> 0, nCancels |-> 0, expired |-> FALSE, dirty |-> FALSE,
     armed |-> FALSE, cancelled |-> FALSE, termAfterCancel |-> 0,
     cancelOps |-> [h \in Handles |-> 0], closeOps |-> [h \in Handles |-> 0],
     hooked |-> FALSE, afterHook |-> FALSE, progress |-> << >>,
     curOp |-> 0, truncs |-> [h \in Handles |-> 0], truncOp |-> 0,
     pollAfterTrunc |-> FALSE, truncRun |-> 0, truncErr |-> FALSE, stmts |-> 0,
     cancelStmt |-> 0, lateSubmit |-> FALSE, lateProgress |-> FALSE,
     cancelOp |-> [q \in CancelIds |-> 0], notReady |-> 0]

Cap(n) == Min(n, 2)

\* The observer's record after effect e.
See(o, e) ==
    LET o1 == IF o.hooked /\ e.cb \in {"executeStatement", "onStatementProgress",
                                       "onSessionExpired", "onStateChange"}
              THEN [o EXCEPT !.afterHook = TRUE]
              ELSE o
    IN
    CASE e.cb = "execute" /\ e.s = "accepted" -> [o1 EXCEPT !.nRuns = @ + 1]
      [] e.cb = "executeAll" /\ e.s = "accepted" ->
           [o1 EXCEPT !.nRuns = @ + 1, !.stmts = e.b]
      [] e.cb \in {"submitRejected", "fetchRejected"} ->
           [o1 EXCEPT !.dirty = TRUE, !.expired = @ \/ e.s = "expired"]
      [] e.cb = "cancel" ->
           [o1 EXCEPT !.dirty = TRUE, !.cancelled = TRUE,
                      !.armed = @ \/ e.s \in {"SUBMITTING", "RUNNING"},
                      !.cancelStmt = IF ~o1.armed /\ e.s \in {"SUBMITTING", "RUNNING"}
                                     THEN e.b ELSE @]
      [] e.cb = "executeStatement" -> [o1 EXCEPT !.lateSubmit = @ \/ o1.armed]
      [] e.cb = "onStateChange" ->
           IF o1.cancelled /\ e.s \in Terminal
           THEN [o1 EXCEPT !.termAfterCancel = Cap(@ + 1)]
           ELSE o1
      [] e.cb = "cancelOperation" ->
           [o1 EXCEPT !.cancelOps[e.a] = Cap(@ + 1)]
      [] e.cb = "closeOperation" -> [o1 EXCEPT !.closeOps[e.a] = Cap(@ + 1)]
      [] e.cb = "onSessionExpired" -> [o1 EXCEPT !.hooked = TRUE]
      [] e.cb = "onStatementProgress" ->
           [o1 EXCEPT !.progress = Append(@, << e.a, e.b >>),
                      !.lateProgress = @ \/ (o1.armed /\ e.a > o1.cancelStmt)]
      [] e.cb = "fetchResults" ->
           [o1 EXCEPT !.curOp = e.a,
                      !.pollAfterTrunc = @ \/ o1.truncs[e.a] > 0]
      [] e.cb = "submitResolved" -> [o1 EXCEPT !.notReady = 0]
      [] e.cb = "fetchResolved" ->
           [o1 EXCEPT !.notReady = IF e.s \in {"NOT_READY", "NO_RESULTS"} THEN @ + 1
                                   ELSE IF e.s = "PAYLOAD" /\ e.b >= 0 THEN 0
                                   ELSE @]
      [] e.cb \in {"onWarning", "onError"} /\ e.s = "trimmed" ->
           [o1 EXCEPT !.truncs[o1.curOp] = Cap(@ + 1), !.truncOp = o1.curOp,
                      !.truncRun = Cap(@ + 1), !.truncErr = @ \/ e.cb = "onError"]
      [] OTHER -> o1

RECURSIVE Observe(_, _)
Observe(o, ev) == IF ev = << >> THEN o ELSE Observe(See(o, Head(ev)), Tail(ev))

\* ------------------------------------------------------------- the query cell
\* The error text the cell shows: null, the text of a rejected request
\* (with the statement position the runner prefixed), or the fixed text of an
\* expiry after the retry.
NoError == << "null", 0, 0 >>
ExpiredMessage == << "Session expired. Please try again.", 0, 0 >>

\* retryCount, runnerRef   retryCountRef, runnerRef (0: null; else the runner)
\* queryState, error       the React state set by setQueryState / setError
\* n                       the number of statements of the request
\* hook                    the onSessionExpired coroutine: "none", "recreate"
\*                         (awaiting recreateSession), "done"
\* ews, ewsCancel          executeWithSession: "awaitCancel" while it awaits
\*                         cancel() of the runner in flight, and which
\*                         cancellation protocol that call runs (0: none)
\* nRecreate, executes, userCancel   recreateSession calls, handleExecute
\*                         calls, handleCancel was called
\* currentQuery            currentQuery.id, the tab the cell shows (0: the cell
\*                         is taken without its tabs)
\* sessionState, sessionError   the React state set by setSessionState /
\*                         setSessionError (the error as null or a message)
\* sessionPromiseRef       sessionPromiseRef.current (0: null; else the
\*                         openSession call whose promise it holds)
\* effectPromise           the promise the cleanup of the session effect
\*                         closes over (0: the effect returned no cleanup)
NewCell ==
    [retryCount |-> 0, runnerRef |-> 0, queryState |-> "IDLE", error |-> NoError,
     n |-> 0, hook |-> "none", ews |-> "none", ewsCancel |-> 0,
     nRecreate |-> 0, executes |-> 0, userCancel |-> FALSE,
     currentQuery |-> 0, sessionState |-> "none", sessionError |-> "null",
     sessionPromiseRef |-> 0, effectPromise |-> 0]

\* The runner the cell constructs: all callbacks supplied.
CellRunner == [NewRunner(TRUE, TRUE) EXCEPT !.callbacks = "QueryCell"]

\* The callback onSessionExpired of the cell, up to its await of recreateSession.
onSessionExpired(c) ==
    IF c.retryCount >= MAX_SESSION_RETRIES
    THEN [c EXCEPT !.error = ExpiredMessage, !.queryState = "FAILED"]
    ELSE [c EXCEPT !.retryCount = @ + 1, !.nRecreate = @ + 1, !.hook = "recreate"]

\* The cell after callback e of one of its runners.
CellSee(c, e) ==
    CASE e.cb = "onStateChange" -> [c EXCEPT !.queryState = e.s]
      [] e.cb = "onError" -> [c EXCEPT !.error = << e.s, e.a, e.b >>]
      [] e.cb = "onSessionExpired" -> onSessionExpired(c)
      [] OTHER -> c

RECURSIVE CellFold(_, _)
CellFold(c, ev) == IF ev = << >> THEN c ELSE CellFold(CellSee(c, Head(ev)), Tail(ev))

\* The cell after the effects ev of a runner whose callbacks are cbs.
React(c, cbs, ev) == IF cbs = "QueryCell" THEN CellFold(c, ev) ELSE c

\* -------------------------------------------------------------------- actions
\* The step of runner r's run coroutine k gave res = [m, c].
Commit(r, k, res) ==
    /\ rn' = [rn EXCEPT ![r] = res.m.f]
    /\ co' = [co EXCEPT ![r][k] = res.c]
    /\ fired' = [r |-> r, ev |-> res.m.ev]
    /\ obs' = [obs EXCEPT ![r] = Observe(@, res.m.ev)]
    /\ cell' = React(cell, rn[r].callbacks, res.m.ev)
    /\ UNCHANGED << cc, connVars >>

Start(r, stim) == [f |-> rn[r], ev |-> << stim >>]

\* The marker of a call of execute / executeAll: whether a coroutine of it is
\* left at an await ("accepted") or it has returned ("ignored").
Call(cb, res, k, n) ==
    Ev(cb, IF res.c.pc = "none" THEN "ignored" ELSE "accepted", k, n)

\* execute(statement) is called on runner r.
Execute(r) ==
    /\ obs[r].nRuns < MaxRuns
    /\ LET k == obs[r].nRuns + 1
           res == execute(rn[r], k)
       IN  Commit(r, k, [res EXCEPT !.m.ev = << Call("execute", res, k, 1) >> \o @])

\* executeAll(statements) is called on runner r with n statements.
ExecuteAll(r, n) ==
    /\ obs[r].nRuns < MaxRuns
    /\ LET k == obs[r].nRuns + 1
           res == executeAll(rn[r], k, n)
       IN  Commit(r, k, [res EXCEPT !.m.ev = << Call("executeAll", res, k, n) >> \o @])

\* The gateway answers the submit of run coroutine k with an operation handle.
\* A session the gateway has reported as not existing stays so: it answers no
\* later request on it.
SubmitOk(r, k) ==
    /\ co[r][k].pc = "submit"
    /\ ~co[r][k].reqAborted
    /\ ~obs[r].expired
    /\ LET h == HandleOf(k, co[r][k].i)
       IN  Commit(r, k, SubmitResolved(Start(r, Ev("submitResolved", "", k, h)), co[r][k], h))

\* The submit of run coroutine k is rejected: as cancelled when its signal was
\* aborted, else with a transport or gateway error.
SubmitFail(r, k, err) ==
    /\ co[r][k].pc = "submit"
    /\ (err = "abort") = co[r][k].reqAborted
    /\ Commit(r, k, Thrown(Start(r, Ev("submitRejected", err, k, 0)), co[r][k], err,
                            "submit"))

\* The gateway answers the poll of run coroutine k with one of pages.
FetchOk(r, k, pages) ==
    /\ co[r][k].pc = "fetch"
    /\ ~co[r][k].reqAborted
    /\ ~obs[r].expired
    /\ co[r][k].reqOp # 0
    /\ \E p \in pages :
           /\ p.type = "EOS" \/ co[r][k].polls < MaxPolls
           /\ Commit(r, k, ProcessPage(Start(r, Ev("fetchResolved", p.type, k, p.rows)),
                                       [co[r][k] EXCEPT !.polls = @ + 1], p))

\* The poll of run coroutine k is rejected.
FetchFail(r, k, err) ==
    /\ co[r][k].pc = "fetch"
    /\ (err = "abort") = co[r][k].reqAborted
    /\ Commit(r, k, Thrown(Start(r, Ev("fetchRejected", err, k, 0)), co[r][k], err,
                            "fetch"))

\* The backoff sleep of run coroutine k ends.
SleepDone(r, k) ==
    /\ co[r][k].pc = "sleep"
    /\ Commit(r, k, FetchLoopTop(Start(r, Ev("sleepDone", "", k, 0)), co[r][k]))

\* The stimulus of a step of the cancellation protocol: the request awaited
\* at pcq resolved (ok) or was rejected.
ProtocolStep(pcq, ok, k, q) ==
    Ev(IF ok THEN "protocolStep" ELSE "protocolStepRejected", pcq, k, q)

\* A request of the cancellation protocol that run coroutine k awaits ends,
\* resolved (ok) or rejected.
RunCancelStep(r, k, ok) ==
    /\ co[r][k].pc \in {"pc_cancel", "pc_stop", "pc_close"}
    /\ LET m0 == Start(r, ProtocolStep(co[r][k].pc, ok, k, 0))
           p == performCancelSettled(m0, co[r][k].pc, ok, TRUE)
       IN  Commit(r, k, CASE p.pcq = "pc_done" -> AfterPerformCancel(p.m, co[r][k])
                          [] p.pcq = "rejected" ->
                                Thrown(p.m, co[r][k], "generic", co[r][k].pc)
                          [] OTHER -> R(p.m, [co[r][k] EXCEPT !.pc = p.pcq]))

\* controller.abort() on the controllers the runner's fields hold: the request
\* in flight on that signal, if any, will be rejected as cancelled.
Abort(cos, sub, fet) ==
    [k \in RunIds |->
        LET c == cos[k]
            c1 == IF k = sub /\ c.pc = "submit" THEN [c EXCEPT !.reqAborted = TRUE] ELSE c
            c2 == IF k = fet
                  THEN [c1 EXCEPT !.sigAborted = TRUE,
                                  !.reqAborted = IF c1.pc = "fetch" THEN TRUE ELSE @]
                  ELSE c1
        IN  c2]

\* cancel() is called on runner r while it is running, by a caller whose
\* state is c0.
CancelFrom(r, c0) ==
    /\ isRunning(rn[r])
    /\ rn[r].operationHandle # 0 => obs[r].nCancels < MaxCancels
    /\ LET m0 == [Start(r, Ev("cancel", rn[r].state, rn[r].operationHandle,
                               rn[r].multiStatementIndex + 1))
                     EXCEPT !.f.cancelRequested = TRUE]
           p == performCancelStart(m0)
           q == obs[r].nCancels + 1
       IN  /\ rn' = [rn EXCEPT ![r] = p.m.f]
           /\ co' = [co EXCEPT ![r] = Abort(@, rn[r].submitAbortController,
                                            rn[r].fetchAbortController)]
           /\ cc' = IF p.pcq = "pc_done" THEN cc ELSE [cc EXCEPT ![r][q] = p.pcq]
           /\ fired' = [r |-> r, ev |-> p.m.ev]
           /\ obs' = [obs EXCEPT ![r] =
                         IF p.pcq = "pc_done"
                         THEN Observe(@, p.m.ev)
                         ELSE [Observe(@, p.m.ev) EXCEPT
                                  !.nCancels = q, !.cancelOp[q] = rn[r].operationHandle]]
           /\ cell' = React([c0 EXCEPT !.ewsCancel = IF p.pcq = "pc_done" THEN 0 ELSE q],
                            rn[r].callbacks, p.m.ev)
           /\ UNCHANGED connVars

Cancel(r) == CancelFrom(r, cell)

\* A request of the cancellation protocol started by the q-th cancel() ends,
\* resolved (ok) or rejected.
CancelStep(r, q, ok) ==
    /\ cc[r][q] \in {"pc_cancel", "pc_stop", "pc_close"}
    /\ LET p == performCancelSettled(Start(r, ProtocolStep(cc[r][q], ok, 0, q)), cc[r][q],
                                     ok, FALSE)
       IN  /\ rn' = [rn EXCEPT ![r] = p.m.f]
           /\ cc' = [cc EXCEPT ![r][q] = p.pcq]
           /\ fired' = [r |-> r, ev |-> p.m.ev]
           /\ obs' = [obs EXCEPT ![r] = Observe(@, p.m.ev)]
           /\ cell' = React(cell, rn[r].callbacks, p.m.ev)
           /\ UNCHANGED << co, connVars >>

\* ------------------------------------------------------------ the environment
PageSizes == {1, MAX_ROWS - 1, MAX_ROWS + 1}

NotReady == Page("NOT_READY", TRUE, 0, FALSE, FALSE, -1, Uri("empty", 0))
Eos == Page("EOS", TRUE, 0, FALSE, FALSE, -1, Uri("empty", 0))
Payload(rows, job, token) == Page("PAYLOAD", TRUE, 1, job, TRUE, rows, Uri("result", token + 1))

\* The pages the gateway may answer a poll for page token with.
Pages(token) ==
    {NotReady, Eos} \cup {Payload(n, j, token) : n \in PageSizes, j \in BOOLEAN}

\* A gateway that answers with small pages only.
SmallPages(token) == {NotReady, Eos, Payload(1, TRUE, token)}

PagesOf(full, token) == IF full THEN Pages(token) ELSE SmallPages(token)

Errors == {"generic", "expired", "abort"}

\* ------------------------------------------------------ the gateway connection
Tabs == 1..MaxTabs
CallIds == 1..MaxCalls
SessionHandles == 1..MaxOpens

\* this.sessions, a Map from tab to session handle, as the list of its entries
\* in insertion order.  A deleted entry stays in the list with handle 0, as an
\* iterator of the Map steps over it; set() of an absent key appends.
LiveAt(es, tab) == {j \in 1..Len(es) : es[j].tab = tab /\ es[j].h # 0}

MapGet(es, tab) ==
    IF LiveAt(es, tab) = {} THEN 0 ELSE es[CHOOSE j \in LiveAt(es, tab) : TRUE].h

\* Mutant of MapSet: a key that is present keeps its value.
MapSet_KeepFirst(es, tab, h) ==
    IF LiveAt(es, tab) = {} THEN Append(es, [tab |-> tab, h |-> h]) ELSE es

MapSet(es, tab, h) ==
    IF LiveAt(es, tab) = {}
    THEN Append(es, [tab |-> tab, h |-> h])
    ELSE [j \in 1..Len(es) |-> IF j \in LiveAt(es, tab) THEN [es[j] EXCEPT !.h = h] ELSE es[j]]

MapDelete(es, tab) ==
    [j \in 1..Len(es) |-> IF es[j].tab = tab THEN [es[j] EXCEPT !.h = 0] ELSE es[j]]

MapClear(es) == [j \in 1..Len(es) |-> [es[j] EXCEPT !.h = 0]]

MapSize(es) == Cardinality({j \in 1..Len(es) : es[j].h # 0})

\* The handles of Array.from(entries()), in order.
RECURSIVE MapValues(_)
MapValues(es) ==
    IF es = << >> THEN << >>
    ELSE IF Head(es).h # 0 THEN << Head(es).h >> \o MapValues(Tail(es))
    ELSE MapValues(Tail(es))

\* The connection: its session map, its heartbeat timer and visibility
\* listener (set or null), and whether the registry holds it.
NewConn ==
    [sessions |-> << >>, heartbeatInterval |-> FALSE, visibilityHandler |-> FALSE,
     registered |-> TRUE]

\* Mutant of stopHeartbeat: the timer is left running.
stopHeartbeat_Noop(g) == g

ensureHeartbeat(g) == [g EXCEPT !.gc.heartbeatInterval = TRUE, !.gc.visibilityHandler = TRUE]

stopHeartbeat(g) == [g EXCEPT !.gc.heartbeatInterval = FALSE, !.gc.visibilityHandler = FALSE]

\* The gateway: per handle, "none" (not opened), "live", "closed" or "expired",
\* and the tab it was opened for.  What an observer of the connection keeps:
\* opened (sessions opened so far, the handles being 1 .. opened), started
\* (calls of the connection's methods made so far), closeTried
\* (handles a remote close was requested for), retired (handles a
\* recreateSession deleted or found replaced), closedTabs (tabs closeSession
\* was called for with no openSession or recreateSession call since), raced
\* (per tab: two
\* recreateSession calls, one of the heartbeat and one of a caller, were in
\* flight together and both have completed).
NewGateway ==
    [status |-> [h \in SessionHandles |-> "none"], tabOf |-> [h \in SessionHandles |-> 0],
     opened |-> 0, started |-> 0, closeTried |-> {}, retired |-> {}, closedTabs |-> {},
     racing |-> [t \in Tabs |-> FALSE], raced |-> [t \in Tabs |-> FALSE]]

\* A call of an async method at an await.  kind: the method; pc: "open",
\* "close", "heartbeat" (the client request awaited); tab, h: the tab and
\* handle at hand; idx: the position of a Map iterator; todo: handles
\* disconnectAll has still to close, and for pingAllSessions (as its observer
\* keeps them) the handles recorded when it was called that it has not pinged.
NoCall == [kind |-> "none", pc |-> "idle", tab |-> 0, h |-> 0, idx |-> 0, todo |-> << >>]

\* A connection under a step: gc, gw (the gateway) and the effects ev so far;
\* a method's step gives G(g, call), call being NoCall when it has ended.
G(g, call) == [g |-> g, call |-> call]

Say(g, e) == [g EXCEPT !.ev = Append(@, e)]

\* Mutant of openSession: the recorded handle is not looked up.
openSession_NoReuse(g, tab) ==
    G(Say(g, Ev("client.openSession", "", tab, 0)),
      [NoCall EXCEPT !.kind = "openSession", !.pc = "open", !.tab = tab])

\* openSession(tabId) up to its await.
openSession(g, tab) ==
    LET existing == MapGet(g.gc.sessions, tab)
    IN  IF existing # 0
        THEN G(Say(g, Ev("return", "openSession", tab, existing)), NoCall)
        ELSE G(Say(g, Ev("client.openSession", "", tab, 0)),
               [NoCall EXCEPT !.kind = "openSession", !.pc = "open", !.tab = tab])

\* closeSession(tabId) up to its await.
closeSession(g, tab) ==
    LET sessionHandle == MapGet(g.gc.sessions, tab)
    IN  IF sessionHandle = 0
        THEN G(Say(g, Ev("return", "closeSession", tab, 0)), NoCall)
        ELSE G(Say([g EXCEPT !.gc.sessions = MapDelete(@, tab)],
                   Ev("client.closeSession", "", tab, sessionHandle)),
               [NoCall EXCEPT !.kind = "closeSession", !.pc = "close", !.tab = tab,
                              !.h = sessionHandle])

\* Mutant of closeSessionEnd: the heartbeat is stopped whatever the map holds.
closeSessionEnd_AlwaysStops(g, call) ==
    G(Say(stopHeartbeat(g), Ev("return", "closeSession", call.tab, 0)), NoCall)

\* closeSession after its await (the remote close resolved or was rejected,
\* which the catch makes the same).
closeSessionEnd(g, call) ==
    LET g1 == IF MapSize(g.gc.sessions) = 0 THEN stopHeartbeat(g) ELSE g
    IN  G(Say(g1, Ev("return", "closeSession", call.tab, 0)), NoCall)

\* recreateSession(tabId) up to its await, in a call of kind `kind`.
recreateSession(g, call, tab) ==
    G(Say([g EXCEPT !.gc.sessions = MapDelete(@, tab)],
          Ev("client.openSession", "", tab, 0)),
      [call EXCEPT !.pc = "open", !.tab = tab])

\* openSession / recreateSession after the await: the handle is recorded.
sessionOpened(g, call, h) ==
    ensureHeartbeat([g EXCEPT !.gc.sessions = MapSet(@, call.tab, h)])

\* pingAllSessions: the for...of loop from iterator position call.idx up to the
\* await of the next heartbeat.
RECURSIVE pingLoop(_, _)
pingLoop(g, call) ==
    IF call.idx > Len(g.gc.sessions)
    THEN G(Say(g, Ev("return", "pingAllSessions", 0, 0)), NoCall)
    ELSE LET e == g.gc.sessions[call.idx]
         IN  IF e.h = 0
             THEN pingLoop(g, [call EXCEPT !.idx = @ + 1])
             ELSE G(Say(g, Ev("client.heartbeat", "", e.tab, e.h)),
                    [call EXCEPT !.pc = "heartbeat", !.tab = e.tab, !.h = e.h,
                                 !.idx = @ + 1,
                                 !.todo = SelectSeq(@, LAMBDA h : h # e.h)])

pingAllSessions(g) ==
    pingLoop(g, [NoCall EXCEPT !.kind = "pingAllSessions", !.idx = 1,
                               !.todo = MapValues(g.gc.sessions)])

\* Mutant of heartbeatRejected: any failure recreates the session.
heartbeatRejected_AlwaysRecreate(g, call, err) == recreateSession(g, call, call.tab)

\* pingAllSessions resumed with the heartbeat rejected with err.
heartbeatRejected(g, call, err) ==
    IF isSessionExpired(err)
    THEN recreateSession(g, call, call.tab)
    ELSE pingLoop(g, call)

\* disconnectAll: the loop over the entries taken, up to the next await.
disconnectLoop(g, call) ==
    IF call.todo = << >>
    THEN G(Say(g, Ev("return", "disconnectAll", 0, 0)), NoCall)
    ELSE G(Say(g, Ev("client.closeSession", "", 0, Head(call.todo))),
           [call EXCEPT !.pc = "close", !.h = Head(call.todo), !.todo = Tail(@)])

disconnectAll(g) ==
    LET g1 == stopHeartbeat(g)
        entries == MapValues(g1.gc.sessions)
    IN  disconnectLoop([g1 EXCEPT !.gc.sessions = MapClear(@)],
                       [NoCall EXCEPT !.kind = "disconnectAll", !.todo = entries])

\* ConnectionManager.removeConnection for this connection.
removeConnection(g) ==
    LET d == disconnectAll(g)
    IN  G([d.g EXCEPT !.gc.registered = FALSE], d.call)

\* The call resumed with client.openSession resolved with handle h.
openResolved(g, call, h) ==
    IF call.kind = "pingAllSessions"
    THEN pingLoop(sessionOpened(g, call, h), call)
    ELSE G(Say(sessionOpened(g, call, h), Ev("return", call.kind, call.tab, h)), NoCall)

\* The call resumed with client.openSession rejected: openSession and
\* recreateSession throw, pingAllSessions catches and goes on.
openRejected(g, call) ==
    IF call.kind = "pingAllSessions"
    THEN pingLoop(g, call)
    ELSE G(Say(g, Ev("throw", call.kind, call.tab, 0)), NoCall)

\* The call resumed after client.closeSession, resolved or rejected.
closeSettled(g, call) ==
    IF call.kind = "disconnectAll" THEN disconnectLoop(g, call) ELSE closeSessionEnd(g, call)

\* ------------------------------------------------------ the connection registry
\* Connections the registry makes (uuidv4 gives each a fresh id), and the
\* names and urls a user gives them.
ConnIds == 1..MaxConns
ConnNames == {"local", "prod"}
ConnUrls == {"http://gw:8083"}

\* A GatewayConnection of the registry: id, name, url and the tabs it has a
\* session for.
Connection(id, name, url) == [id |-> id, name |-> name, url |-> url, sessions |-> {}]

\* localStorage: item STORAGE_KEY (a JSON text, here its sequence of scalar
\* tokens, or null) and item ACTIVE_CONNECTION_KEY (an id, or 0 for null).
NoStorage == [connections |-> << "null" >>, active |-> 0]

toJSON(c) == << c.id, c.name, c.url >>

fromJSON(json) == Connection(json[1], json[2], json[3])

\* JSON.stringify of the array of toJSON() objects: the objects' values in order.
RECURSIVE stringify(_)
stringify(cs) == IF cs = << >> THEN << >> ELSE toJSON(Head(cs)) \o stringify(Tail(cs))

\* JSON.parse of such a text, each item made a connection by fromJSON.
RECURSIVE parseItems(_)
parseItems(text) ==
    IF Len(text) < 3 THEN << >>
    ELSE << fromJSON(SubSeq(text, 1, 3)) >> \o parseItems(SubSeq(text, 4, Len(text)))

HasConn(cs, id) == \E j \in 1..Len(cs) : cs[j].id = id

\* connections.set for each loaded item: a later item of an id replaces the
\* earlier one in place.
RECURSIVE setAll(_, _)
setAll(cs, items) ==
    IF items = << >> THEN cs
    ELSE LET c == Head(items)
         IN  setAll(IF HasConn(cs, c.id)
                    THEN [j \in 1..Len(cs) |-> IF cs[j].id = c.id THEN c ELSE cs[j]]
                    ELSE Append(cs, c),
                    Tail(items))

FirstId(cs) == IF cs = << >> THEN 0 ELSE cs[1].id

\* Mutant of loadFromStorage: the stored active id is not read.
loadFromStorage_FirstActive(st) ==
    LET cs == IF st.connections = << "null" >> THEN << >>
              ELSE setAll(<< >>, parseItems(st.connections))
    IN  [connections |-> cs, activeConnectionId |-> FirstId(cs)]

\* new ConnectionManager(): the constructor's loadFromStorage.
loadFromStorage(st) ==
    LET cs == IF st.connections = << "null" >> THEN << >>
              ELSE setAll(<< >>, parseItems(st.connections))
    IN  [connections |-> cs,
         activeConnectionId |->
             IF st.active # 0 /\ HasConn(cs, st.active) THEN st.active ELSE FirstId(cs)]

NewManager == loadFromStorage(NoStorage)

saveToStorage(m, st) ==
    [connections |-> stringify(m.connections),
     active |-> IF m.activeConnectionId # 0 THEN m.activeConnectionId ELSE st.active]

\* A step of the registry gives the manager and the storage after it, and
\* whether the change listeners were notified.
M(m, st) == [m |-> m, st |-> st, notified |-> FALSE]

notifyListeners(res) == [res EXCEPT !.notified = TRUE]

addConnection(m, st, id, name, url) ==
    LET cs == Append(m.connections, Connection(id, name, url))
        m1 == [m EXCEPT !.connections = cs,
                        !.activeConnectionId = IF Len(cs) = 1 THEN id ELSE @]
    IN  notifyListeners(M(m1, saveToStorage(m1, st)))

Without(cs, id) == SelectSeq(cs, LAMBDA c : c.id # id)

\* ConnectionManager.removeConnection(id); disconnectAll's effect on the
\* removed connection goes with the connection.
removeById(m, st, id) ==
    IF ~HasConn(m.connections, id) THEN M(m, st)
    ELSE LET cs == Without(m.connections, id)
             m1 == [m EXCEPT !.connections = cs,
                             !.activeConnectionId = IF @ = id THEN FirstId(cs) ELSE @]
         IN  notifyListeners(M(m1, saveToStorage(m1, st)))

\* Mutant of setActiveConnection: the id is not looked up.
setActiveConnection_NoCheck(m, st, id) ==
    notifyListeners(M([m EXCEPT !.activeConnectionId = id], [st EXCEPT !.active = id]))

setActiveConnection(m, st, id) ==
    IF HasConn(m.connections, id)
    THEN notifyListeners(M([m EXCEPT !.activeConnectionId = id], [st EXCEPT !.active = id]))
    ELSE M(m, st)

\* connectActive() with its open resolved: the active connection records a
\* session for tab 'default'.
connectActive(m) ==
    [m EXCEPT !.connections =
        [j \in 1..Len(@) |-> IF @[j].id = m.activeConnectionId
                             THEN [@[j] EXCEPT !.sessions = @ \cup {"default"}]
                             ELSE @[j]]]

Init ==
    /\ \E hook \in BOOLEAN, warn \in BOOLEAN : rn = [r \in Runners |-> NewRunner(hook, warn)]
    /\ co = [r \in Runners |-> [k \in RunIds |-> NoCo]]
    /\ cc = [r \in Runners |-> [q \in CancelIds |-> "none"]]
    /\ fired = [r |-> 0, ev |-> << >>]
    /\ obs = [r \in Runners |-> NewObs]
    /\ cell = NewCell
    /\ gc = NewConn
    /\ calls = [c \in CallIds |-> NoCall]
    /\ gateway = NewGateway
    /\ mgr = NewManager
    /\ storage = NoStorage

\* The caller constructs a runner for every run (QueryCell.executeWithSession):
\* an instance is given one execute or executeAll call.
Run(r) == obs[r].nRuns = 0 /\ Execute(r)

RunAll(r, n) == obs[r].nRuns = 0 /\ ExecuteAll(r, n)

\* execute or executeAll is called on r while its run is in flight.
Reenter(r) ==
    /\ isRunning(rn[r])
    /\ \/ Execute(r)
       \/ \E n \in 0..MaxStmts : ExecuteAll(r, n)

\* A coroutine of runner r is resumed by the answer it awaits; full: the
\* gateway may answer with any page of Pages.
StepOn(r, full) ==
    \/ \E q \in CancelIds, ok \in BOOLEAN : CancelStep(r, q, ok)
    \/ \E k \in RunIds :
        \/ SubmitOk(r, k)
        \/ \E err \in Errors : SubmitFail(r, k, err)
        \/ FetchOk(r, k, PagesOf(full, co[r][k].token))
        \/ \E err \in Errors : FetchFail(r, k, err)
        \/ SleepDone(r, k)
        \/ \E ok \in BOOLEAN : RunCancelStep(r, k, ok)

RunnerStep(r) == StepOn(r, TRUE)

\* One runner and any caller of its public methods.
Standalone == {1}

Next ==
    \E r \in Standalone :
        \/ Run(r)
        \/ \E n \in 0..MaxStmts : RunAll(r, n)
        \/ Cancel(r)
        \/ RunnerStep(r)

Spec == Init /\ [][Next]_vars

\* The awaits of a run coroutine and of the cancellation protocol.
Awaits == {"submit", "fetch", "sleep", "pc_cancel", "pc_stop", "pc_close"}

\* Run coroutine k of runner r is resumed from the await it is at: it moves to
\* another await or to its end, or has processed one more page.
Resumed(r, k) ==
    /\ co[r][k].pc \in Awaits
    /\ << co'[r][k].pc, co'[r][k].polls >> # << co[r][k].pc, co[r][k].polls >>

\* The cancellation protocol of the q-th cancel() of runner r is resumed.
CancelResumed(r, q) ==
    /\ cc[r][q] \in Awaits
    /\ cc'[r][q] # cc[r][q]

\* Every transport request eventually resolves or is rejected and every backoff
\* sleep eventually ends: weak fairness of the resumption of each coroutine.
\* A coroutine at an await can always be resumed (a request can be rejected, a
\* sleep can end), so its resumption is enabled exactly when it is at an await.
Fairness ==
    \A r \in Standalone :
        /\ \A k \in RunIds :
              \/ []<>(co[r][k].pc \notin Awaits)
              \/ []<><<Resumed(r, k)>>_vars
        /\ \A q \in CancelIds :
              \/ []<>(cc[r][q] \notin Awaits)
              \/ []<><<CancelResumed(r, q)>>_vars

\* One runner given one run by any caller and a gateway that answers with
\* small pages.
SmallNext ==
    \E r \in Standalone :
        \/ Run(r)
        \/ \E n \in 0..MaxStmts : RunAll(r, n)
        \/ Cancel(r)
        \/ StepOn(r, FALSE)

SmallSpec == Init /\ [][SmallNext]_vars

\* The same under fair scheduling.
LiveSpec == Init /\ [][SmallNext]_vars /\ Fairness

\* The same with calls of execute / executeAll while the run is in flight.
GuardNext ==
    \E r \in Standalone :
        \/ Run(r)
        \/ \E n \in 0..MaxStmts : RunAll(r, n)
        \/ Reenter(r)
        \/ Cancel(r)
        \/ StepOn(r, FALSE)

GuardSpec == Init /\ [][GuardNext]_vars

\* One runner given any sequence of execute, executeAll and cancel calls.
ReuseNext ==
    \E r \in Standalone :
        \/ Execute(r)
        \/ \E n \in 0..MaxStmts : ExecuteAll(r, n)
        \/ Cancel(r)
        \/ StepOn(r, FALSE)

ReuseSpec == Init /\ [][ReuseNext]_vars

\* ------------------------------------------------------------- a slow gateway
\* A page with no results field.
NoResults == Page("PAYLOAD", FALSE, 0, FALSE, FALSE, -1, Uri("empty", 0))

\* The values of nextResultUri on a page answering the poll for page token:
\* none, a text with no page number, and URIs of page 0 and of page token + 2.
Uris(token) ==
    {Uri("empty", 0), Uri("other", 0), Uri("result", 0), Uri("result", token + 2)}

\* Pages of every shape the poll loop tells apart: with or without results,
\* column list (schema 1 or 2), data (no data field, no row, one row) and
\* continuation URI.
RichPages(token) ==
    {NoResults}
        \cup {Page("NOT_READY", TRUE, cols, FALSE, FALSE, -1, next) :
                 cols \in {0, 1}, next \in {Uri("empty", 0), Uri("result", token + 2)}}
        \cup {Page("EOS", TRUE, cols, FALSE, TRUE, -1, Uri("empty", 0)) : cols \in {0, 2}}
        \cup {Page("PAYLOAD", TRUE, cols, FALSE, TRUE, rows, next) :
                 cols \in 0..2, rows \in {-1, 0, 1}, next \in Uris(token)}

\* The first MaxPolls answers to the polls of a statement are any of RichPages;
\* after them the gateway stays not ready for any number of polls, answers
\* with one row more at most, and ends the stream.
PollPages(c) ==
    IF c.polls < MaxPolls THEN RichPages(c.token)
    ELSE IF c.backoffMs > 0 THEN {NotReady, Eos, Payload(1, FALSE, c.token)}
    ELSE {Eos}

\* The gateway answers the poll of run coroutine k with page p; the step
\* starts with what the page holds.
PollOk(r, k) ==
    /\ co[r][k].pc = "fetch"
    /\ \E p \in PollPages(co[r][k]) :
           /\ p.type = "EOS" \/ co[r][k].polls < MaxPages
           /\ Commit(r, k,
                     ProcessPage([f |-> rn[r],
                                  ev |-> << Ev("fetchResolved",
                                               IF p.hasResults THEN p.type ELSE "NO_RESULTS",
                                               k, p.rows),
                                            Ev("page", p.next.kind, p.cols, p.next.n) >>],
                                 [co[r][k] EXCEPT !.polls = @ + 1], p))

PollInit ==
    /\ rn = [r \in Runners |-> NewRunner(FALSE, FALSE)]
    /\ co = [r \in Runners |-> [k \in RunIds |-> NoCo]]
    /\ cc = [r \in Runners |-> [q \in CancelIds |-> "none"]]
    /\ fired = [r |-> 0, ev |-> << >>]
    /\ obs = [r \in Runners |-> NewObs]
    /\ cell = NewCell
    /\ gc = NewConn
    /\ calls = [c \in CallIds |-> NoCall]
    /\ gateway = NewGateway
    /\ mgr = NewManager
    /\ storage = NoStorage

\* One runner given one run whose requests all resolve, the polls with pages
\* of PollPages.
PollNext ==
    \E r \in Standalone :
        \/ \E n \in 1..MaxStmts : RunAll(r, n)
        \/ \E k \in RunIds :
            \/ SubmitOk(r, k)
            \/ PollOk(r, k)
            \/ SleepDone(r, k)

PollSpec == PollInit /\ [][PollNext]_vars

\* ------------------------------------------------- the query cell's operations
\* executeWithSession after its await of cancel(): the UI state is reset, runner
\* r is constructed, stored in runnerRef and given the statements.
LaunchRunner(c0, r, n) ==
    /\ r \in Runners
    /\ LET res == executeAll(CellRunner, 1, n)
           ev == << Call("executeAll", res, 1, n) >> \o res.m.ev
       IN  /\ rn' = [rn EXCEPT ![r] = res.m.f]
           /\ co' = [co EXCEPT ![r][1] = res.c]
           /\ fired' = [r |-> r, ev |-> ev]
           /\ obs' = [obs EXCEPT ![r] = Observe(@, ev)]
           /\ cell' = React([c0 EXCEPT !.error = NoError, !.runnerRef = r,
                                       !.ews = "none", !.ewsCancel = 0],
                            "QueryCell", ev)
           /\ UNCHANGED << cc, connVars >>

\* executeWithSession from its entry, the cell being c0: a runner in flight is
\* cancelled first, and the cancel() awaited.
executeWithSession(c0) ==
    IF c0.runnerRef # 0 /\ isRunning(rn[c0.runnerRef])
    THEN CancelFrom(c0.runnerRef, [c0 EXCEPT !.ews = "awaitCancel"])
    ELSE LaunchRunner(c0, c0.runnerRef + 1, c0.n)

\* handleExecute with n statements in the editor and a session at hand.
HandleExecute(n) ==
    /\ cell.executes = 0
    /\ executeWithSession([cell EXCEPT !.retryCount = 0, !.n = n, !.executes = @ + 1])

\* handleCancel: cancel() on the runner in runnerRef.
HandleCancel ==
    /\ cell.runnerRef # 0
    /\ cell.ews = "none"
    /\ CancelFrom(cell.runnerRef, [cell EXCEPT !.userCancel = TRUE])

\* recreateSession resolves with a new session handle: the hook calls
\* executeWithSession with it.
RecreateOk ==
    /\ cell.hook = "recreate"
    /\ executeWithSession([cell EXCEPT !.hook = "done"])

\* recreateSession is rejected: the catch of the hook.
RecreateFail ==
    /\ cell.hook = "recreate"
    /\ cell' = [cell EXCEPT !.hook = "done", !.error = << "generic", 0, 0 >>,
                            !.queryState = "FAILED"]
    /\ fired' = [r |-> 0, ev |-> << >>]
    /\ UNCHANGED << rn, co, cc, obs, connVars >>

\* The cancel() that executeWithSession awaits has resolved.
ResumeAfterCancel ==
    /\ cell.ews = "awaitCancel"
    /\ cell.ewsCancel # 0 => cc[cell.runnerRef][cell.ewsCancel] = "pc_done"
    /\ LaunchRunner(cell, cell.runnerRef + 1, cell.n)

CellInit ==
    /\ rn = [r \in Runners |-> CellRunner]
    /\ co = [r \in Runners |-> [k \in RunIds |-> NoCo]]
    /\ cc = [r \in Runners |-> [q \in CancelIds |-> "none"]]
    /\ fired = [r |-> 0, ev |-> << >>]
    /\ obs = [r \in Runners |-> NewObs]
    /\ cell = NewCell
    /\ gc = NewConn
    /\ calls = [c \in CallIds |-> NoCall]
    /\ gateway = NewGateway
    /\ mgr = NewManager
    /\ storage = NoStorage

CellNext ==
    \/ \E n \in 1..MaxStmts : HandleExecute(n)
    \/ HandleCancel
    \/ RecreateOk
    \/ RecreateFail
    \/ ResumeAfterCancel
    \/ \E r \in Runners : RunnerStep(r)

CellSpec == CellInit /\ [][CellNext]_vars

\* handleExecute is called again, with n statements, when an earlier call has
\* launched its runner.
HandleExecuteAgain(n) ==
    /\ cell.executes = 1
    /\ cell.runnerRef = 1
    /\ cell.ews = "none"
    /\ cell.hook = "none"
    /\ executeWithSession([cell EXCEPT !.retryCount = 0, !.n = n, !.executes = @ + 1])

\* The cell whose user runs the editor's text a second time; the recovery
\* hook's recreateSession stays pending.
RestartNext ==
    \/ \E n \in 1..MaxStmts : HandleExecute(n)
    \/ \E n \in 1..MaxStmts : HandleExecuteAgain(n)
    \/ ResumeAfterCancel
    \/ \E r \in Runners : StepOn(r, FALSE)

RestartSpec == CellInit /\ [][RestartNext]_vars

\* ------------------------------------------------- the connection's operations
\* Calls are numbered as they are made.
HasFree == gateway.started < MaxCalls

FreeSlot == gateway.started + 1

Begin(stim) == [gc |-> gc, ev |-> << stim >>]

\* A recreateSession (of a caller or of the heartbeat) awaits its open for tab.
Recreating(call, tab) ==
    /\ call.pc = "open" /\ call.tab = tab
    /\ call.kind \in {"recreateSession", "pingAllSessions"}

\* The observer's record when the calls in flight have become cs and the step
\* started a recreateSession for tab, deleting the handle old.
NoteRecreate(gw, cs, tab, old) ==
    [gw EXCEPT !.retired = @ \cup ({old} \ {0}),
               !.racing[tab] = @ \/ (\E c, d \in CallIds :
                                        /\ Recreating(cs[c], tab) /\ Recreating(cs[d], tab)
                                        /\ cs[c].kind = "recreateSession"
                                        /\ cs[d].kind = "pingAllSessions")]

\* The observer's record when a call has requested a remote close.
NoteClose(gw, call) ==
    IF call.pc = "close" THEN [gw EXCEPT !.closeTried = @ \cup {call.h}] ELSE gw

\* The entry list without its deleted entries, and a Map iterator's position in
\* it: an iterator at position idx of es has the same entries left to visit as
\* one at Kept(es, idx) of Compact(es).
IsLive(e) == e.h # 0

Compact(es) == SelectSeq(es, IsLive)

Kept(es, idx) == 1 + Cardinality({j \in 1..Len(es) : j < idx /\ es[j].h # 0})

Started(gw) == [gw EXCEPT !.started = @ + 1]

\* The observer's record when closeSession (closed) or openSession /
\* recreateSession (~closed) is called for tab.
NoteTab(gw, tab, closed) ==
    [gw EXCEPT !.closedTabs = IF closed THEN @ \cup {tab} ELSE @ \ {tab}]

\* Call c's step gave res; the gateway and the observer's record become gw.
ConnEffects(c, res, gw) ==
    /\ gc' = [res.g.gc EXCEPT !.sessions = Compact(@)]
    /\ calls' = [d \in CallIds |->
                    LET call == IF d = c THEN res.call ELSE calls[d]
                    IN  IF call.kind = "pingAllSessions"
                        THEN [call EXCEPT !.idx = Kept(res.g.gc.sessions, @)]
                        ELSE call]
    /\ gateway' = gw
    /\ fired' = [r |-> 0, ev |-> res.g.ev]
    /\ UNCHANGED << rn, co, cc, obs, regVars >>

\* The then / catch callbacks the cell attached to the promise of its
\* openSession call (QueryCell): they run when call c has ended with effects
\* ev, and act only while sessionPromiseRef still holds that promise.
PromiseSettled(cl, c, call, ev) ==
    IF cl.sessionPromiseRef = c /\ call = NoCall
    THEN IF ev[Len(ev)].cb = "throw"
         THEN [cl EXCEPT !.sessionState = "error", !.sessionError = "message"]
         ELSE [cl EXCEPT !.sessionState = "connected", !.sessionError = "null"]
    ELSE cl

ConnCommit(c, res, gw) ==
    /\ ConnEffects(c, res, gw)
    /\ cell' = PromiseSettled(cell, c, res.call, res.g.ev)

\* openSession(tab) is called.
OpenSession(tab) ==
    /\ gc.registered /\ HasFree
    /\ ConnCommit(FreeSlot, openSession(Begin(Ev("openSession", "", tab, 0)), tab),
                  Started(NoteTab(gateway, tab, FALSE)))

\* closeSession(tab) is called (a tab is closed).
CloseSession(tab) ==
    /\ gc.registered /\ HasFree
    /\ LET res == closeSession(Begin(Ev("closeSession", "", tab, 0)), tab)
       IN  ConnCommit(FreeSlot, res,
                      Started(NoteTab(NoteClose(gateway, res.call), tab, TRUE)))

\* recreateSession(tab) is called by a caller that had a request rejected as
\* session-expired on a session of the tab.
RecreateSession(tab) ==
    /\ gc.registered /\ HasFree
    /\ \E h \in SessionHandles : gateway.tabOf[h] = tab /\ gateway.status[h] = "expired"
    /\ LET res == recreateSession(Begin(Ev("recreateSession", "", tab, 0)),
                                  [NoCall EXCEPT !.kind = "recreateSession"], tab)
       IN  ConnCommit(FreeSlot, res,
                      Started(NoteTab(NoteRecreate(gateway,
                                                   [calls EXCEPT ![FreeSlot] = res.call],
                                                   tab, MapGet(gc.sessions, tab)),
                                      tab, FALSE)))

\* ConnectionManager.removeConnection(id) is called for the connection.
RemoveConnection ==
    /\ gc.registered /\ HasFree
    /\ LET res == removeConnection(Begin(Ev("removeConnection", "", 0, 0)))
       IN  ConnCommit(FreeSlot, res, Started(NoteClose(gateway, res.call)))

\* The heartbeat interval fires.
Tick ==
    /\ gc.heartbeatInterval /\ HasFree
    /\ ConnCommit(FreeSlot, pingAllSessions(Begin(Ev("pingAllSessions", "", 0, 0))), Started(gateway))

\* The document becomes visible.
VisibilityChange ==
    /\ gc.visibilityHandler /\ MapSize(gc.sessions) > 0 /\ HasFree
    /\ ConnCommit(FreeSlot, pingAllSessions(Begin(Ev("pingAllSessions", "", 0, 0))), Started(gateway))

\* The gateway opens a session for call c's request and answers with its handle.
OpenOk(c) ==
    /\ calls[c].pc = "open"
    /\ gateway.opened < MaxOpens
    /\ LET h == gateway.opened + 1
           tab == calls[c].tab
           res == openResolved(Begin(Ev("openResolved", calls[c].kind, tab, h)), calls[c], h)
           cs == [calls EXCEPT ![c] = res.call]
           last == Recreating(calls[c], tab) /\ gateway.racing[tab]
                   /\ ~\E d \in CallIds : Recreating(cs[d], tab)
       IN  ConnCommit(c, res,
                      [gateway EXCEPT !.status[h] = "live", !.tabOf[h] = tab, !.opened = h,
                                      !.raced[tab] = @ \/ last,
                                      !.racing[tab] = @ /\ ~last])

\* Call c's open request is rejected.
OpenFail(c) ==
    /\ calls[c].pc = "open"
    /\ ConnCommit(c, openRejected(Begin(Ev("openRejected", calls[c].kind, calls[c].tab, 0)),
                                  calls[c]),
                  [gateway EXCEPT !.racing[calls[c].tab] = FALSE])

\* The gateway closes the session of call c's close request.
CloseOk(c) ==
    /\ calls[c].pc = "close"
    /\ gateway.status[calls[c].h] = "live"
    /\ LET res == closeSettled(Begin(Ev("closeResolved", calls[c].kind, calls[c].tab,
                                        calls[c].h)), calls[c])
       IN  ConnCommit(c, res, NoteClose([gateway EXCEPT !.status[calls[c].h] = "closed"],
                                        res.call))

\* Call c's close request is rejected.
CloseFail(c) ==
    /\ calls[c].pc = "close"
    /\ LET res == closeSettled(Begin(Ev("closeRejected", calls[c].kind, calls[c].tab,
                                        calls[c].h)), calls[c])
       IN  ConnCommit(c, res, NoteClose(gateway, res.call))

\* The gateway accepts the heartbeat of call c.
HeartbeatOk(c) ==
    /\ calls[c].pc = "heartbeat"
    /\ gateway.status[calls[c].h] = "live"
    /\ ConnCommit(c, pingLoop(Begin(Ev("heartbeatResolved", "", calls[c].tab, calls[c].h)),
                              calls[c]), gateway)

\* The heartbeat of call c is rejected: as session-expired when the gateway no
\* longer has the session, or with a transport error.
HeartbeatFail(c, err) ==
    /\ calls[c].pc = "heartbeat"
    /\ err \in {"generic", "expired"}
    /\ err = "expired" => gateway.status[calls[c].h] \in {"closed", "expired"}
    /\ LET res == heartbeatRejected(Begin(Ev("heartbeatRejected", err, calls[c].tab,
                                             calls[c].h)), calls[c], err)
       IN  ConnCommit(c, res,
                      IF err = "expired"
                      THEN NoteRecreate(gateway, [calls EXCEPT ![c] = res.call], calls[c].tab,
                                        MapGet(gc.sessions, calls[c].tab))
                      ELSE gateway)

\* The gateway drops session h (idle timeout, restart).
Expire(h) ==
    /\ gateway.status[h] = "live"
    /\ gateway' = [gateway EXCEPT !.status[h] = "expired"]
    /\ fired' = [r |-> 0, ev |-> << Ev("expire", "", gateway.tabOf[h], h) >>]
    /\ UNCHANGED << runVars, regVars, gc, calls >>

ConnInit ==
    /\ rn = [r \in Runners |-> NewRunner(FALSE, FALSE)]
    /\ co = [r \in Runners |-> [k \in RunIds |-> NoCo]]
    /\ cc = [r \in Runners |-> [q \in CancelIds |-> "none"]]
    /\ fired = [r |-> 0, ev |-> << >>]
    /\ obs = [r \in Runners |-> NewObs]
    /\ cell = NewCell
    /\ gc = NewConn
    /\ calls = [c \in CallIds |-> NoCall]
    /\ gateway = NewGateway
    /\ mgr = NewManager
    /\ storage = NoStorage

ConnNext ==
    \/ \E tab \in Tabs :
        \/ OpenSession(tab)
        \/ CloseSession(tab)
        \/ RecreateSession(tab)
    \/ RemoveConnection
    \/ Tick
    \/ VisibilityChange
    \/ \E h \in SessionHandles : Expire(h)
    \/ \E c \in CallIds :
        \/ OpenOk(c)
        \/ OpenFail(c)
        \/ CloseOk(c)
        \/ CloseFail(c)
        \/ HeartbeatOk(c)
        \/ \E err \in {"generic", "expired"} : HeartbeatFail(c, err)

ConnSpec == ConnInit /\ [][ConnNext]_vars

\* ------------------------------------------------ the cell's session of its tab
\* The cell's session effect for tab (QueryCell lines 78-126), up to its
\* return; p is the openSession call it makes when the tab has no record.
sessionEffect(cl, g, tab, p) ==
    IF ~g.gc.registered
    THEN [cl |-> [cl EXCEPT !.sessionState = "none", !.sessionError = "null",
                            !.sessionPromiseRef = 0, !.effectPromise = 0],
          res |-> G(g, NoCall)]
    ELSE IF MapGet(g.gc.sessions, tab) # 0
    THEN [cl |-> [cl EXCEPT !.sessionState = "connected", !.sessionError = "null",
                            !.sessionPromiseRef = 0, !.effectPromise = 0],
          res |-> G(g, NoCall)]
    ELSE [cl |-> [cl EXCEPT !.sessionState = "connecting", !.sessionError = "null",
                            !.sessionPromiseRef = p, !.effectPromise = p],
          res |-> openSession(g, tab)]

\* The cell's visibilitychange listener (QueryCell lines 129-155) when the
\* document has become visible; p is the openSession call it makes.
handleVisibility(cl, g, p) ==
    IF ~g.gc.registered
    THEN [cl |-> cl, res |-> G(g, NoCall)]
    ELSE IF MapGet(g.gc.sessions, cl.currentQuery) # 0
    THEN [cl |-> cl, res |-> G(g, NoCall)]
    ELSE [cl |-> [cl EXCEPT !.sessionState = "connecting", !.sessionError = "null",
                            !.sessionPromiseRef = p],
          res |-> openSession(g, cl.currentQuery)]

\* The cell's step gave out: a call was made when out.res.call is one.
CellCommit(out, tab) ==
    /\ out.res.call # NoCall => HasFree
    /\ ConnEffects(FreeSlot, out.res,
                   IF out.res.call # NoCall
                   THEN Started(NoteTab(gateway, tab, FALSE))
                   ELSE gateway)
    /\ cell' = out.cl

\* The user selects tab t: currentQuery.id changes, the cleanup of the session
\* effect runs (lines 120-125), then the effect for the new tab.
SelectTab(t) ==
    /\ t # cell.currentQuery
    /\ LET c1 == [cell EXCEPT !.currentQuery = t,
                              !.sessionPromiseRef =
                                  IF cell.effectPromise # 0 /\ @ = cell.effectPromise
                                  THEN 0 ELSE @]
       IN  CellCommit(sessionEffect(c1, Begin(Ev("setCurrentQuery", "QueryCell", t, 0)),
                                    t, FreeSlot), t)

\* The document becomes visible: the cell's listener runs.
HandleVisibility ==
    /\ cell.currentQuery \in Tabs
    /\ CellCommit(handleVisibility(cell, Begin(Ev("visibilitychange", "QueryCell",
                                                  cell.currentQuery, 0)), FreeSlot),
                  cell.currentQuery)

\* The cell is mounted showing tab 1 on the active connection: its session
\* effect has run.
VisInit ==
    LET out == sessionEffect([NewCell EXCEPT !.currentQuery = 1],
                             [gc |-> NewConn, ev |-> << Ev("mount", "QueryCell", 1, 0) >>],
                             1, 1)
    IN  /\ rn = [r \in Runners |-> NewRunner(FALSE, FALSE)]
        /\ co = [r \in Runners |-> [k \in RunIds |-> NoCo]]
        /\ cc = [r \in Runners |-> [q \in CancelIds |-> "none"]]
        /\ fired = [r |-> 0, ev |-> out.res.g.ev]
        /\ obs = [r \in Runners |-> NewObs]
        /\ cell = out.cl
        /\ gc = out.res.g.gc
        /\ calls = [c \in CallIds |-> IF c = 1 THEN out.res.call ELSE NoCall]
        /\ gateway = Started(NoteTab(NewGateway, 1, FALSE))
        /\ mgr = NewManager
        /\ storage = NoStorage

\* The cell and its tabs on the active connection, with the heartbeat and the
\* gateway dropping sessions.  The two listeners of visibilitychange (the
\* cell's and the connection's) are a step each.
VisNext ==
    \/ \E t \in Tabs : SelectTab(t)
    \/ HandleVisibility
    \/ Tick
    \/ VisibilityChange
    \/ \E h \in SessionHandles : Expire(h)
    \/ \E c \in CallIds :
        \/ OpenOk(c)
        \/ OpenFail(c)
        \/ HeartbeatOk(c)
        \/ \E err \in {"generic", "expired"} : HeartbeatFail(c, err)

VisSpec == VisInit /\ [][VisNext]_vars

\* --------------------------------------------------- the registry's operations
\* Ids no connection of the registry and no stored item has: to the registry
\* and the storage any of them is a new uuid.
UnusedIds ==
    {id \in ConnIds : ~HasConn(mgr.connections, id) /\ storage.active # id}

RegCommit(res, stim) ==
    /\ mgr' = res.m
    /\ storage' = res.st
    /\ fired' = [r |-> 0,
                 ev |-> IF res.notified THEN << stim, Ev("listener", "", 0, 0) >>
                        ELSE << stim >>]
    /\ UNCHANGED << runVars, gc, calls, gateway >>

AddConnection(name, url) ==
    /\ UnusedIds # {}
    /\ LET id == CHOOSE i \in UnusedIds : \A j \in UnusedIds : i <= j
       IN  RegCommit(addConnection(mgr, storage, id, name, url),
                     Ev("addConnection", name, id, 0))

\* removeConnection(id), for an id of the registry or not.
RemoveById(id) ==
    /\ id \in ConnIds
    /\ RegCommit(removeById(mgr, storage, id), Ev("removeConnection", "", id, 0))

SetActiveConnection(id) ==
    /\ id \in ConnIds
    /\ RegCommit(setActiveConnection(mgr, storage, id), Ev("setActiveConnection", "", id, 0))

\* connectActive() opens the active connection's 'default' session.
ConnectActive ==
    /\ mgr.activeConnectionId # 0
    /\ RegCommit(notifyListeners(M(connectActive(mgr), storage)),
                 Ev("connectActive", "", 0, 0))

\* The page is loaded again: a new ConnectionManager is constructed.
Reload ==
    /\ mgr' = loadFromStorage(storage)
    /\ fired' = [r |-> 0, ev |-> << Ev("new ConnectionManager", "", 0, 0) >>]
    /\ UNCHANGED << runVars, gc, calls, gateway, storage >>

RegInit ==
    /\ rn = [r \in Runners |-> NewRunner(FALSE, FALSE)]
    /\ co = [r \in Runners |-> [k \in RunIds |-> NoCo]]
    /\ cc = [r \in Runners |-> [q \in CancelIds |-> "none"]]
    /\ fired = [r |-> 0, ev |-> << >>]
    /\ obs = [r \in Runners |-> NewObs]
    /\ cell = NewCell
    /\ gc = NewConn
    /\ calls = [c \in CallIds |-> NoCall]
    /\ gateway = NewGateway
    /\ mgr = NewManager
    /\ storage = NoStorage

RegNext ==
    \/ \E name \in ConnNames, url \in ConnUrls : AddConnection(name, url)
    \/ \E id \in ConnIds : RemoveById(id)
    \/ \E id \in ConnIds : SetActiveConnection(id)
    \/ ConnectActive
    \/ Reload

RegSpec == RegInit /\ [][RegNext]_vars

\* ===================================================================== claims
EvsOf(r) == IF fired.r = r THEN fired.ev ELSE << >>

Has(ev, cb) == \E j \in 1..Len(ev) : ev[j].cb = cb

Notified(ev, S) == \E j \in 1..Len(ev) : ev[j].cb = "onStateChange" /\ ev[j].s \in S

Count(ev, cb) == Cardinality({j \in 1..Len(ev) : ev[j].cb = cb})

\* No coroutine of runner r is at an await: the run is over.
Quiescent(r) ==
    /\ obs[r].nRuns > 0
    /\ \A k \in RunIds : co[r][k].pc \in {"none", "done"}
    /\ \A q \in CancelIds : cc[r][q] \in {"none", "pc_done"}

\* C1: once cancel() was called in state SUBMITTING or RUNNING, FAILED is never
\* notified, onError is never called, and the run ends in CANCELLED.
C1_CancelEndsCancelled ==
    \A r \in Runners :
        obs[r].armed =>
            /\ ~Has(EvsOf(r), "onError")
            /\ ~Notified(EvsOf(r), {"FAILED"})
            /\ Quiescent(r) => rn[r].state = "CANCELLED"

\* C1 witness: a run cancelled while RUNNING, after a page of rows had been
\* processed, is over.
C1_Witness ==
    \E r \in Runners :
        obs[r].armed /\ Quiescent(r) /\ rn[r].allRows > 0 /\ rn[r].state = "CANCELLED"

\* C2: the state of a runner in a terminal state does not change unless
\* execute/executeAll is accepted anew.
C2_TerminalIsFinal ==
    [][\A r \in Runners :
          rn[r].state \in Terminal =>
              rn'[r].state = rn[r].state \/ obs'[r].nRuns > obs[r].nRuns]_vars

\* C3: in a run in which cancel() was called, a terminal state is notified at
\* most once after it, and cancelOperation and closeOperation are requested at
\* most once per operation.
C3_OneTerminalOneProtocol ==
    \A r \in Runners :
        obs[r].cancelled =>
            /\ obs[r].termAfterCancel <= 1
            /\ \A h \in Handles : obs[r].cancelOps[h] <= 1 /\ obs[r].closeOps[h] <= 1

\* The last step resumed runner r with a submit or poll rejected as session-expired.
ExpiredStep(r) ==
    /\ EvsOf(r) # << >>
    /\ EvsOf(r)[1].cb \in {"submitRejected", "fetchRejected"}
    /\ EvsOf(r)[1].s = "expired"

\* C4: a submit or poll rejected as session-expired, with a recovery hook
\* supplied, invokes the hook exactly once with the state at IDLE, calls no
\* onError and notifies neither FAILED nor FINISHED.
C4_ExpiryInvokesHook ==
    \A r \in Runners :
        ExpiredStep(r) /\ rn[r].hasHook =>
            /\ Count(EvsOf(r), "onSessionExpired") = 1
            /\ \A j \in 1..Len(EvsOf(r)) :
                   EvsOf(r)[j].cb = "onSessionExpired" => EvsOf(r)[j].s = "IDLE"
            /\ ~Has(EvsOf(r), "onError")
            /\ ~Notified(EvsOf(r), {"FAILED", "FINISHED"})

\* C5: in a multi-statement run, after the recovery hook was invoked the runner
\* submits nothing, reports no progress, does not invoke the hook again and
\* changes state no more.
C5_HaltedAfterHook ==
    \A r \in Runners : rn[r].multiStatementTotal > 1 => ~obs[r].afterHook

\* The cell's request is over: no coroutine of the cell or of its runners is at
\* an await.
CellQuiet ==
    /\ cell.executes > 0
    /\ cell.hook \in {"none", "done"}
    /\ cell.ews = "none"
    /\ \A r \in Runners :
           /\ \A k \in RunIds : co[r][k].pc \in {"none", "done"}
           /\ \A q \in CancelIds : cc[r][q] \in {"none", "pc_done"}

\* A request of the retry's runner was rejected as session-expired.
ExpiredAfterRetry == cell.runnerRef > 1 /\ obs[cell.runnerRef].expired

\* C6: within one handleExecute, recreateSession is called and the statements
\* are re-run at most MAX_SESSION_RETRIES times; when a request of the retry is
\* rejected as session-expired (and the user did not cancel), the request ends
\* with query state FAILED and the error 'Session expired. Please try again.'.
C6_RetryOnceThenFailed ==
    /\ cell.nRecreate <= MAX_SESSION_RETRIES
    /\ cell.runnerRef <= MAX_SESSION_RETRIES + 1
    /\ CellQuiet /\ ExpiredAfterRetry /\ ~cell.userCancel =>
           cell.queryState = "FAILED" /\ cell.error = ExpiredMessage

\* The step resumes a run coroutine of r with its poll rejected (and not because
\* cancel() aborted it), the row buffer holding rows.
PollFailsWithRows(r) ==
    /\ fired'.r = r
    /\ fired'.ev[1].cb = "fetchRejected"
    /\ ~rn[r].cancelRequested
    /\ rn[r].allRows > 0

\* C7 (first half): a poll failing with rows buffered ends the statement
\* FINISHED, the failure goes to onWarning and not to onError, and (single
\* statement) the rows are kept.
C7_PartialResultsWarn ==
    [][\A r \in Runners :
          PollFailsWithRows(r) =>
              /\ Notified(fired'.ev, {"FINISHED"})
              /\ Has(fired'.ev, "onWarning")
              /\ ~Has(fired'.ev, "onError")
              /\ rn[r].multiStatementTotal <= 1 => rn'[r].allRows = rn[r].allRows]_vars

\* C8: the row buffer never holds more than MAX_ROWS rows, and every
\* onRowsReceived is given the buffer with its length as totalRowCount.
C8_RowCap ==
    \A r \in Runners :
        /\ rn[r].allRows <= MAX_ROWS
        /\ \A j \in 1..Len(EvsOf(r)) :
               EvsOf(r)[j].cb = "onRowsReceived" =>
                   /\ EvsOf(r)[j].b <= MAX_ROWS
                   /\ EvsOf(r)[j].a = EvsOf(r)[j].b
                   /\ (\A i \in (j + 1)..Len(EvsOf(r)) : EvsOf(r)[i].cb # "onRowsReceived")
                          => EvsOf(r)[j].b = rn[r].allRows

\* C8 witness: a page was cut and the buffer holds exactly MAX_ROWS rows.
C8_Witness ==
    \E r \in Runners : rn[r].allRows = MAX_ROWS /\ obs[r].truncs[obs[r].truncOp] > 0

\* C9: when a page would exceed the cap the page is cut to the space left, the
\* notice is given once in the run and through onWarning, the cancellation
\* protocol is run on the operation, the operation is polled no more, and a run
\* that ends with this statement ends FINISHED.
C9_TruncationFinishes ==
    \A r \in Runners :
        LET h == obs[r].truncOp
        IN  obs[r].truncs[h] > 0 =>
                /\ obs[r].truncRun = 1
                /\ ~obs[r].truncErr
                /\ obs[r].cancelOps[h] >= 1
                /\ ~obs[r].pollAfterTrunc
                /\ rn[r].operationHandle = h =>
                       /\ rn[r].allRows = MAX_ROWS
                       /\ Quiescent(r) => rn[r].state = "FINISHED"

\* The run of r is over and saw no failure, no expiry and no cancel().
CleanRunOver(r) == Quiescent(r) /\ ~obs[r].dirty

\* <<1, n>>, ..., <<n, n>>
UpTo(n) == [j \in 1..n |-> << j, n >>]

\* C10 as stated: n statements given to executeAll, run with no failure,
\* expiry or cancellation, give exactly the n notifications (1,n) .. (n,n).
C10_ProgressOncePerStatement ==
    \A r \in Runners :
        CleanRunOver(r) /\ obs[r].stmts >= 1 => obs[r].progress = UpTo(obs[r].stmts)

\* C10 amended: a chain of n >= 2 statements gives (1,n) .. (n,n), one before
\* each submit, and (n,n) once more when the last statement is over; a single
\* statement gives no notification.
C10_ProgressAmended ==
    \A r \in Runners :
        CleanRunOver(r) /\ obs[r].stmts >= 1 =>
            obs[r].progress = IF obs[r].stmts >= 2
                              THEN Append(UpTo(obs[r].stmts), << obs[r].stmts, obs[r].stmts >>)
                              ELSE << >>

\* C10 witness: a chain has run to its end with no failure or cancellation.
C10_Witness ==
    \E r \in Runners : CleanRunOver(r) /\ obs[r].stmts >= 2 /\ rn[r].state = "FINISHED"

\* The step resumes the chain of r with a hard failure: a submit rejected, or a
\* poll rejected with the row buffer empty, not as session-expired and with no
\* cancel() called in the run.
HardFailStep(r) ==
    /\ fired'.r = r
    /\ fired'.ev[1].cb \in {"submitRejected", "fetchRejected"}
    /\ fired'.ev[1].s = "generic"
    /\ rn[r].multiStatementTotal > 1
    /\ ~rn[r].cancelRequested
    /\ fired'.ev[1].cb = "fetchRejected" => rn[r].allRows = 0

\* C11: when statement k of a chain of n fails hard, onError is given the
\* message with position k/n, FAILED is notified and is the state, the progress
\* reported is (1,n) .. (k,n), and the chain coroutine has ended; a chain in
\* state FAILED submits nothing and reports no progress.
C11_ChainStopsAtFailure ==
    [][\A r \in Runners :
          /\ HardFailStep(r) =>
                LET k == rn[r].multiStatementIndex + 1
                    n == rn[r].multiStatementTotal
                IN  /\ \E j \in 1..Len(fired'.ev) :
                           /\ fired'.ev[j].cb = "onError"
                           /\ fired'.ev[j].a = k /\ fired'.ev[j].b = n
                    /\ Count(fired'.ev, "onError") = 1
                    /\ Notified(fired'.ev, {"FAILED"})
                    /\ rn'[r].state = "FAILED"
                    /\ obs'[r].progress = [j \in 1..k |-> << j, n >>]
                    /\ \A c \in RunIds : co'[r][c].pc \in {"none", "done"}
          /\ rn[r].state = "FAILED" /\ rn[r].multiStatementTotal > 1 /\ fired'.r = r =>
                /\ ~Has(fired'.ev, "executeStatement")
                /\ ~Has(fired'.ev, "onStatementProgress")
                /\ rn'[r].state = "FAILED"]_vars

\* C11 witness: statement 2 of a chain failed hard after statement 1 ended.
C11_Witness ==
    \E r \in Runners :
        /\ rn[r].state = "FAILED" /\ ~rn[r].cancelRequested
        /\ rn[r].multiStatementTotal > 1 /\ rn[r].multiStatementIndex = 1
        /\ obs[r].progress = << << 1, rn[r].multiStatementTotal >>,
                                 << 2, rn[r].multiStatementTotal >> >>
        /\ Quiescent(r)

\* The step is a call of execute or executeAll on r that the guards turn away:
\* r is running, or the statement list is empty.
GuardedCall(r) ==
    /\ fired'.r = r
    /\ fired'.ev[1].cb \in {"execute", "executeAll"}
    /\ isRunning(rn[r]) \/ (fired'.ev[1].cb = "executeAll" /\ fired'.ev[1].b = 0)

\* C12: execute or executeAll called while the runner is running, or executeAll
\* with no statement, changes no field of the runner, leaves every coroutine
\* where it was, invokes no callback and issues no request.
C12_GuardedCallIsNoOp ==
    [][\A r \in Runners :
          GuardedCall(r) =>
              /\ rn'[r] = rn[r]
              /\ co'[r] = co[r]
              /\ cc'[r] = cc[r]
              /\ Len(fired'.ev) = 1
              /\ fired'.ev[1].s = "ignored"]_vars

\* C12 witness: a call was turned away while the runner was in state CANCELLING.
C12_Witness ==
    \E r \in Runners :
        /\ fired.r = r
        /\ fired.ev # << >>
        /\ fired.ev[1].cb \in {"execute", "executeAll"}
        /\ fired.ev[1].s = "ignored"
        /\ rn[r].state = "CANCELLING"

\* The run coroutines of r that are at an await, those left aside whose request
\* was aborted: they have only its rejection to receive.
ActiveRuns(r) ==
    {k \in RunIds : co[r][k].pc \notin {"none", "done"} /\ ~co[r][k].reqAborted}

\* C13: on one runner instance at most one run is at an await (submit, poll,
\* backoff sleep or cancellation step) at any time.
C13_OneActiveRun ==
    \A r \in Runners : Cardinality(ActiveRuns(r)) <= 1

\* The step is a cancel() call on r.
CancelCall(r) == fired'.r = r /\ fired'.ev[1].cb = "cancel"

\* C14: when the promise of a cancel() that found an operation handle resolves,
\* cancelOperation and closeOperation have been requested for that handle and
\* the state is set to CANCELLED; a cancel() that finds no handle sets the
\* flag, aborts the submit in flight and does nothing else.
C14_CancelResolvesCancelled ==
    [][\A r \in Runners :
          /\ \A q \in CancelIds :
                cc[r][q] # "pc_done" /\ cc'[r][q] = "pc_done" =>
                    /\ obs'[r].cancelOps[obs[r].cancelOp[q]] >= 1
                    /\ obs'[r].closeOps[obs[r].cancelOp[q]] >= 1
                    /\ Notified(fired'.ev, {"CANCELLED"})
                    /\ rn'[r].state = "CANCELLED"
          /\ CancelCall(r) /\ rn[r].operationHandle = 0 =>
                /\ rn'[r] = [rn[r] EXCEPT !.cancelRequested = TRUE]
                /\ Len(fired'.ev) = 1
                /\ cc'[r] = cc[r]
                /\ \A k \in RunIds :
                       /\ co[r][k].pc = "submit" => co'[r][k].reqAborted
                       /\ co'[r][k] = [co[r][k] EXCEPT !.reqAborted = co'[r][k].reqAborted]]_vars

\* C14 witness: the promise of a cancel() that found a handle has resolved.
C14_Witness ==
    \E r \in Runners, q \in CancelIds :
        /\ cc[r][q] = "pc_done"
        /\ obs[r].cancelOp[q] # 0
        /\ obs[r].closeOps[obs[r].cancelOp[q]] >= 1
        /\ rn[r].state = "CANCELLED"

\* C15: in a chain, after cancel() was called in state SUBMITTING or RUNNING
\* during statement i, no statement is submitted, no progress is reported for
\* a statement after i, and the run ends in CANCELLED.
C15_ChainStopsAtCancel ==
    \A r \in Runners :
        obs[r].armed /\ obs[r].stmts >= 2 =>
            /\ ~obs[r].lateSubmit
            /\ ~obs[r].lateProgress
            /\ Quiescent(r) => rn[r].state = "CANCELLED"

\* C15 witness: a chain cancelled while its first statement was polled is over.
C15_Witness ==
    \E r \in Runners :
        /\ obs[r].armed /\ obs[r].stmts >= 2 /\ obs[r].cancelStmt = 1
        /\ rn[r].operationHandle # 0
        /\ Quiescent(r) /\ rn[r].state = "CANCELLED"

\* The connection method called by the step into the state, and its tab.
Called(ev, cb) == Len(ev) > 0 /\ ev[1].cb = cb

Returned(ev, kind, tab, h) ==
    \E j \in 1..Len(ev) :
        ev[j].cb = "return" /\ ev[j].s = kind /\ ev[j].a = tab /\ ev[j].b = h

\* C16: openSession(tab) called when a handle is recorded for the tab returns
\* the recorded handle, issues no transport request and leaves the session
\* map, the heartbeat and the calls in flight as they were.
C16_OpenSessionReuses ==
    [][\A tab \in Tabs :
           /\ Called(fired'.ev, "openSession") /\ fired'.ev[1].a = tab
           /\ MapGet(gc.sessions, tab) # 0
           => /\ Returned(fired'.ev, "openSession", tab, MapGet(gc.sessions, tab))
              /\ ~Has(fired'.ev, "client.openSession")
              /\ gc' = gc
              /\ calls' = calls
              /\ gateway'.opened = gateway.opened]_vars

\* C16 witness: a second openSession for a tab has returned the handle of the
\* one session opened so far.
C16_Witness ==
    \E tab \in Tabs :
        /\ Called(fired.ev, "openSession") /\ fired.ev[1].a = tab
        /\ Returned(fired.ev, "openSession", tab, 1)
        /\ gateway.opened = 1 /\ gateway.started = 2
        /\ MapGet(gc.sessions, tab) = 1

\* Handle h is one a close has been requested for, or one disconnectAll has
\* taken from the map and is about to close.
BeingClosed(h) ==
    \/ h \in gateway.closeTried
    \/ \E c \in CallIds :
           calls[c].kind = "disconnectAll"
           /\ \E j \in 1..Len(calls[c].todo) : calls[c].todo[j] = h

\* C17: at most one live session per tab: every session opened on the gateway
\* for a tab that is still live there, and that no close has been requested
\* for, is the one the map records for the tab.
C17_OneLiveSessionPerTab ==
    \A tab \in Tabs, h \in SessionHandles :
        /\ gateway.status[h] = "live" /\ gateway.tabOf[h] = tab
        /\ ~BeingClosed(h)
        => MapGet(gc.sessions, tab) = h

\* The step into the state resumed a recreateSession, of a caller or of the
\* heartbeat, with the transport's open resolved.
RecreateResolved(ev) ==
    Called(ev, "openResolved") /\ ev[1].s \in {"recreateSession", "pingAllSessions"}

\* C18: when a recreateSession of the heartbeat and one of a caller are in
\* flight together for a tab, each transport open that resolves leaves the
\* returned handle as the tab's one record, so the open that completes last
\* wins; and a handle that a recreateSession deleted is never recorded again.
C18_RecreateRaceLastWriterWins ==
    [][/\ \A tab \in Tabs :
              /\ gateway.racing[tab]
              /\ RecreateResolved(fired'.ev) /\ fired'.ev[1].a = tab
              => /\ MapGet(gc'.sessions, tab) = fired'.ev[1].b
                 /\ Cardinality(LiveAt(gc'.sessions, tab)) = 1
       /\ \A tab \in Tabs : MapGet(gc'.sessions, tab) \notin gateway'.retired]_vars

\* C18 witness: both racing recreateSession calls have completed; the handle
\* recorded before the race was 1, the opens returned 2 and then 3.
C18_Witness ==
    \E tab \in Tabs :
        /\ gateway.raced[tab]
        /\ RecreateResolved(fired.ev) /\ fired.ev[1].a = tab /\ fired.ev[1].b = 3
        /\ 1 \in gateway.retired
        /\ gateway.tabOf[2] = tab
        /\ MapGet(gc.sessions, tab) = 3
        /\ ~\E c \in CallIds : Recreating(calls[c], tab)

\* The step into the state ended a closeSession call.
CloseSessionCompleted(ev) ==
    \E j \in 1..Len(ev) : ev[j].cb = "return" /\ ev[j].s = "closeSession"

\* C19: while closeSession's remote close is in flight the tab's record is not
\* the handle being closed; a rejected remote close ends the call without a
\* throw; and when a closeSession call completes with no record left in the
\* map and no other closeSession in flight, the heartbeat timer and the
\* visibility listener are not set.
C19_CloseSessionStopsHeartbeat ==
    [][/\ \A c \in CallIds :
              calls'[c].kind = "closeSession" /\ calls'[c].pc = "close"
              => MapGet(gc'.sessions, calls'[c].tab) # calls'[c].h
       /\ Called(fired'.ev, "closeRejected") /\ fired'.ev[1].s = "closeSession"
              => CloseSessionCompleted(fired'.ev) /\ ~Has(fired'.ev, "throw")
       /\ (/\ CloseSessionCompleted(fired'.ev) /\ MapSize(gc'.sessions) = 0
           /\ \A c \in CallIds : calls'[c].kind # "closeSession")
              => ~gc'.heartbeatInterval /\ ~gc'.visibilityHandler]_vars

\* C20: once removeConnection has taken the connection out of the registry,
\* the connection has no heartbeat timer, no visibility listener and no
\* session record, whatever call was in flight at the removal.
C20_RemovedStaysQuiet ==
    ~gc.registered =>
        /\ ~gc.heartbeatInterval
        /\ ~gc.visibilityHandler
        /\ MapSize(gc.sessions) = 0

\* The endpoints of a manager, as (id, name, url), in order.
Endpoints(m) == [j \in 1..Len(m.connections) |-> toJSON(m.connections[j])]

\* C21: at every moment a ConnectionManager constructed from the storage has
\* the endpoints (id, name, url) and the active id of the live manager, and
\* none of its connections has a session.
C21_StorageRoundTrip ==
    LET loaded == loadFromStorage(storage)
    IN  /\ Endpoints(loaded) = Endpoints(mgr)
        /\ loaded.activeConnectionId = mgr.activeConnectionId
        /\ \A j \in 1..Len(loaded.connections) : loaded.connections[j].sessions = {}

\* C21 witness: after additions, a removal and a change of the active
\* connection, the live manager holds two endpoints, the second one active
\* and with a session, the first one added after a removal.
C21_Witness ==
    /\ Len(mgr.connections) = 2
    /\ mgr.activeConnectionId = mgr.connections[2].id
    /\ mgr.connections[2].sessions # {}
    /\ mgr.connections[1].id > mgr.connections[2].id
    /\ Called(fired.ev, "connectActive")

\* C22: the promise of no execute / executeAll call and of no cancel() call is
\* rejected, whatever request failed, expired or was aborted.
C22_PromisesNeverReject ==
    \A r \in Runners :
        /\ \A k \in RunIds : co[r][k].pc # "rejected"
        /\ \A q \in CancelIds : cc[r][q] # "rejected"

\* C22 witness: the closeOperation of a cancel() was rejected and the promise
\* of the cancel() has resolved, the run it cancelled being over as well.
C22_Witness ==
    \E r \in Runners, q \in CancelIds :
        /\ Called(fired.ev, "protocolStepRejected") /\ fired.ev[1].s = "pc_close"
        /\ fired.ev[1].b = q
        /\ cc[r][q] = "pc_done"
        /\ \E k \in RunIds : co[r][k].pc = "done"

\* The step into the state resumed a cancellation protocol at one of its awaits.
ProtocolResumed(ev) == Called(ev, "protocolStep") \/ Called(ev, "protocolStepRejected")

\* C23: the cancellation protocol runs in order.  A CANCELLING notification is
\* at once followed by the cancelOperation request, and no cancelOperation is
\* requested otherwise; when that request has settled, resolved or rejected,
\* STOP JOB is submitted if a job id is recorded and skipped if none is; then
\* closeOperation is requested; when it has settled CANCELLED is notified; no
\* step of the protocol calls onError or notifies FAILED.
C23_ProtocolOrder ==
    [][LET ev == fired'.ev
           f == rn[fired'.r]
       IN  /\ \A j \in 1..Len(ev) :
                  /\ (ev[j].cb = "onStateChange" /\ ev[j].s = "CANCELLING")
                     => j + 1 = Len(ev) /\ ev[j + 1].cb = "cancelOperation"
                  /\ ev[j].cb = "cancelOperation"
                     => j > 1 /\ ev[j - 1] = Ev("onStateChange", "CANCELLING", 0, 0)
           /\ ProtocolResumed(ev) =>
                  /\ ev[1].s = "pc_cancel" /\ f.jobId # 0
                     => Len(ev) = 2 /\ ev[2] = Ev("stopJob", "", f.jobId, 0)
                  /\ ev[1].s = "pc_cancel" /\ f.jobId = 0
                     => Len(ev) = 2 /\ ev[2] = Ev("closeOperation", "", f.operationHandle, 0)
                  /\ ev[1].s = "pc_stop"
                     => Len(ev) = 2 /\ ev[2] = Ev("closeOperation", "", f.operationHandle, 0)
                  /\ ev[1].s = "pc_close"
                     => Len(ev) >= 2 /\ ev[2] = Ev("onStateChange", "CANCELLED", 0, 0)
                  /\ ~Has(ev, "onError")
                  /\ ~Notified(ev, {"FAILED"})
                  /\ rn'[fired'.r].state # "FAILED"]_vars

\* C23 witness: a protocol that had a job to stop ends with CANCELLED notified
\* although its closeOperation was rejected.
C23_Witness ==
    /\ Called(fired.ev, "protocolStepRejected") /\ fired.ev[1].s = "pc_close"
    /\ Len(fired.ev) >= 2 /\ fired.ev[2] = Ev("onStateChange", "CANCELLED", 0, 0)
    /\ fired.r \in Runners
    /\ rn[fired.r].jobId # 0
    /\ \E h \in Handles \ {0} : obs[fired.r].closeOps[h] >= 1

\* No call of a method of the connection is at an await.
ConnQuiet == \A c \in CallIds : calls[c].pc = "idle"

\* C24: a tab that closeSession was called for, with no openSession or
\* recreateSession call for it since, has no session record once the calls in
\* flight have ended.
C24_ClosedTabStaysClosed ==
    \A tab \in Tabs :
        tab \in gateway.closedTabs /\ ConnQuiet => MapGet(gc.sessions, tab) = 0

\* C25: when the connection has no session record, no transport open in
\* flight and no closeSession still at its remote close, its heartbeat timer
\* and its visibility listener are not set.
C25_IdleHasNoHeartbeat ==
    /\ MapSize(gc.sessions) = 0
    /\ \A c \in CallIds : calls[c].pc # "open" /\ calls[c].kind # "closeSession"
    => ~gc.heartbeatInterval /\ ~gc.visibilityHandler

\* The records of the tabs other than tab are the same in the two maps.
SameButFor(es, fs, tab) == \A t \in Tabs \ {tab} : MapGet(es, t) = MapGet(fs, t)

Recorded(es, h) == \E j \in 1..Len(es) : es[j].h = h

\* C28: a call of pingAllSessions pings every session recorded when it was
\* called: until it returns, each of them has been pinged, is no longer
\* recorded, or lies ahead of the call's iterator.  A heartbeat rejected as
\* session-expired starts recreateSession for its tab alone: the tab's record
\* is deleted, a transport open is requested, and the record becomes the
\* returned handle when the open resolves and stays dropped when it is
\* rejected.  A heartbeat rejected otherwise leaves the map as it is.  The
\* call never throws.
C28_HeartbeatSelfHeals ==
    [][LET ev == fired'.ev
           tab == ev[1].a
       IN  /\ \A c \in CallIds :
                  calls'[c].kind = "pingAllSessions" =>
                      \A n \in 1..Len(calls'[c].todo) :
                          LET h == calls'[c].todo[n]
                          IN  \/ ~Recorded(gc'.sessions, h)
                              \/ \E j \in calls'[c].idx..Len(gc'.sessions) :
                                     gc'.sessions[j].h = h
           /\ Called(ev, "pingAllSessions") /\ MapSize(gc.sessions) > 0
                  => ev[2] = Ev("client.heartbeat", "", gc.sessions[1].tab, gc.sessions[1].h)
           /\ Called(ev, "heartbeatRejected") /\ ev[1].s = "expired"
                  => /\ MapGet(gc'.sessions, tab) = 0
                     /\ SameButFor(gc.sessions, gc'.sessions, tab)
                     /\ ev[2] = Ev("client.openSession", "", tab, 0)
           /\ Called(ev, "openResolved") /\ ev[1].s = "pingAllSessions"
                  => /\ MapGet(gc'.sessions, tab) = ev[1].b
                     /\ ~Recorded(gc.sessions, ev[1].b)
                     /\ SameButFor(gc.sessions, gc'.sessions, tab)
           /\ Called(ev, "openRejected") /\ ev[1].s = "pingAllSessions"
                  => gc'.sessions = gc.sessions
           /\ Called(ev, "heartbeatRejected") /\ ev[1].s # "expired"
                  => gc'.sessions = gc.sessions
           /\ \A j \in 1..Len(ev) : ~(ev[j].cb = "throw" /\ ev[j].s = "pingAllSessions")]_vars

\* C28 witness: a tick over two recorded sessions has returned, the first
\* tab's session having been replaced on expiry by session 3, which the same
\* tick pinged after the second tab's.
C28_Witness ==
    /\ Called(fired.ev, "heartbeatResolved") /\ fired.ev[1].b = 3
    /\ Has(fired.ev, "return")
    /\ Len(gc.sessions) = 2
    /\ gc.sessions[2].h = 3
    /\ gateway.status[1] = "expired" /\ gateway.tabOf[1] = gc.sessions[2].tab
    /\ ConnQuiet

\* C26: once executeWithSession has cancelled the runner in flight and launched
\* a new one (which reports SUBMITTING as it is launched), no step of the old
\* runner changes the cell's query state or error or hands it rows.
C26_OldRunnerIsSilent ==
    [][\A r \in Runners :
           /\ fired'.r = r
           /\ cell.runnerRef > r
           /\ obs[r].armed /\ ~cell.userCancel
           => /\ cell'.queryState = cell.queryState
              /\ cell'.error = cell.error
              /\ ~Has(fired'.ev, "onRowsReceived")]_vars

\* The state of the last onStateChange among the effects ev ("" when none).
RECURSIVE LastNotified(_)
LastNotified(ev) ==
    IF ev = << >> THEN ""
    ELSE IF ev[Len(ev)].cb = "onStateChange" THEN ev[Len(ev)].s
    ELSE LastNotified(SubSeq(ev, 1, Len(ev) - 1))

\* C27: getState() is the state last passed to onStateChange whenever the
\* runner has handed control back: a step that leaves the state field changed,
\* or that notifies a state, ends with the field equal to the last state it
\* notified.
C27_StateIsNotified ==
    [][\A r \in Runners :
           fired'.r = r /\ (rn'[r].state # rn[r].state \/ Has(fired'.ev, "onStateChange"))
           => LastNotified(fired'.ev) = rn'[r].state]_vars

\* The calls of onJobId with a job identifier among the effects ev.
JobIdCalls(ev) == {j \in 1..Len(ev) : ev[j].cb = "onJobId" /\ ev[j].a # 0}

\* C29: onJobId is given a statement's job identifier once: the step that
\* records the job id of the statement being polled calls it once with that
\* id, and a step taken when the statement's job id is already recorded does
\* not call it with an identifier.
C29_JobIdOncePerStatement ==
    [][\A r \in Runners :
           fired'.r = r /\ Called(fired'.ev, "fetchResolved") =>
               /\ rn[r].jobId = 0 /\ rn'[r].jobId # 0
                  => /\ Cardinality(JobIdCalls(fired'.ev)) = 1
                     /\ \A j \in JobIdCalls(fired'.ev) : fired'.ev[j].a = rn'[r].jobId
               /\ rn[r].jobId # 0 /\ rn'[r].multiStatementIndex = rn[r].multiStatementIndex
                  => JobIdCalls(fired'.ev) = {}]_vars

\* C30: onIsQueryResult is called once per statement: not before a PAYLOAD
\* page of the statement has arrived, once with that page's isQueryResult in
\* the step that takes the statement's first PAYLOAD page, and not again for
\* the statement.
C30_IsQueryResultOncePerStatement ==
    [][\A r \in Runners :
           fired'.r = r =>
               LET n == Count(fired'.ev, "onIsQueryResult")
                   firstPayload == /\ Called(fired'.ev, "fetchResolved")
                                   /\ fired'.ev[1].s = "PAYLOAD"
                                   /\ ~rn[r].isQueryResultReported
               IN  IF firstPayload THEN n = 1 ELSE n = 0]_vars

\* C31: under Fairness, once cancel() was called on a running runner the runner
\* eventually is not running and stays so; no later execute call is made on it,
\* a runner being given one run.
C31_CancelTerminates ==
    \A r \in Standalone : obs[r].cancelled ~> [](~isRunning(rn[r]))

\* C31 witness: cancel() was called during a backoff sleep, which has ended;
\* the run is over and the runner is not running.
C31_Witness ==
    \E r \in Standalone :
        /\ obs[r].cancelled
        /\ Quiescent(r)
        /\ ~isRunning(rn[r])
        /\ \E k \in RunIds : co[r][k].backoffMs > 0

\* C32: whenever the session map of the connection holds a record, the
\* heartbeat timer is set, whatever calls are in flight.
C32_SessionsHaveHeartbeat ==
    MapSize(gc.sessions) > 0 => gc.heartbeatInterval

\* C32 witness: a closeSession call completes while another tab's record is in
\* the map, and the timer is still set.
C32_Witness ==
    /\ CloseSessionCompleted(fired.ev)
    /\ Called(fired.ev, "closeResolved")
    /\ MapSize(gc.sessions) > 0
    /\ gc.heartbeatInterval

\* The active id of manager m is null when it holds no connection and else
\* the id of one of its connections.
ActiveIsMember(m) ==
    IF m.connections = << >> THEN m.activeConnectionId = 0
    ELSE m.activeConnectionId # 0 /\ HasConn(m.connections, m.activeConnectionId)

\* The last step was a call of method with an id the manager does not hold.
UnknownId(ev, method, m) ==
    Called(ev, method) /\ ~HasConn(m.connections, ev[1].a)

\* C33: in every state of the registry the active id is null exactly when the
\* registry is empty and else names one of its connections; removeConnection
\* or setActiveConnection with an id the registry does not hold changes
\* neither the registry nor the storage and notifies no listener.
C33_ActiveIsMember ==
    /\ ActiveIsMember(mgr)
    /\ [][/\ ActiveIsMember(mgr')
          /\ \A method \in {"removeConnection", "setActiveConnection"} :
                UnknownId(fired'.ev, method, mgr) =>
                    /\ mgr' = mgr
                    /\ storage' = storage
                    /\ ~Has(fired'.ev, "listener")]_vars

\* C33 witness: setActiveConnection was called with an unknown id on a registry
\* of two connections or more, after the active one had been removed.
C33_Witness ==
    /\ UnknownId(fired.ev, "setActiveConnection", mgr)
    /\ Len(mgr.connections) >= 2
    /\ mgr.activeConnectionId # mgr.connections[1].id
    /\ storage.active = mgr.activeConnectionId

\* The step resumes run coroutine k of runner r with a page whose column list
\* and continuation URI the step's record holds.
PageStep(r, k) ==
    /\ fired'.r = r
    /\ Len(fired'.ev) >= 2
    /\ fired'.ev[1].cb = "fetchResolved" /\ fired'.ev[1].a = k
    /\ fired'.ev[2].cb = "page"

\* The step is one of run coroutine k of runner r: the call that starts it or
\* a resumption of it.
StepOf(r, k) == fired'.r = r /\ Len(fired'.ev) > 0 /\ fired'.ev[1].a = k

\* The positions in ev of the calls of onColumnsReceived with a schema.
SchemaCalls(ev) == {j \in 1..Len(ev) : ev[j].cb = "onColumnsReceived" /\ ev[j].a # 0}

\* C34: within a statement the first page with results and a non-empty column
\* list sets the schema and onColumnsReceived is called with it, once; no other
\* step calls onColumnsReceived with a schema or changes the schema of the
\* statement.
C34_SchemaSetOnce ==
    [][\A r \in Standalone, k \in RunIds :
          LET cols == fired'.ev[2].a
              first == /\ PageStep(r, k)
                       /\ fired'.ev[1].s # "NO_RESULTS"
                       /\ cols # 0
                       /\ rn[r].columns = 0
              same == co'[r][k].i = co[r][k].i
          IN  StepOf(r, k) =>
              IF first
              THEN /\ Cardinality(SchemaCalls(fired'.ev)) = 1
                   /\ \A j \in SchemaCalls(fired'.ev) : fired'.ev[j].a = cols
                   /\ same => rn'[r].columns = cols
              ELSE /\ SchemaCalls(fired'.ev) = {}
                   /\ same => rn'[r].columns = rn[r].columns]_vars

\* C34 witness: a page with column list 2 was processed in a statement whose
\* schema a former page had set to 1, and the schema is 1.
C34_Witness ==
    \E r \in Standalone :
        /\ fired.r = r /\ Len(fired.ev) >= 2
        /\ fired.ev[2].cb = "page" /\ fired.ev[2].a = 2
        /\ rn[r].columns = 1

\* The delay of a coroutine at its backoff sleep is min(k * 100, 2000), k being
\* the not-ready answers since the statement's last page with data, and every
\* delay is a multiple of 100 in 0..2000.
BackoffLaw ==
    \A r \in Standalone, k \in RunIds :
        /\ co[r][k].pc = "sleep" =>
               co[r][k].backoffMs = Min(obs[r].notReady * POLL_BACKOFF_STEP_MS,
                                        POLL_BACKOFF_MAX_MS)
        /\ \E j \in 0..(POLL_BACKOFF_MAX_MS \div POLL_BACKOFF_STEP_MS) :
               co[r][k].backoffMs = j * POLL_BACKOFF_STEP_MS

\* The step resumes a coroutine of runner r with a page that has data.
DataStep(r) ==
    /\ fired'.r = r
    /\ Called(fired'.ev, "fetchResolved")
    /\ fired'.ev[1].s = "PAYLOAD" /\ fired'.ev[1].b >= 0

\* C35: the delay before the next poll after the k-th not-ready answer in a row
\* is min(k * 100, 2000); a page with data sets the backoff to 0; the backoff
\* is a multiple of 100 in 0..2000 and decreases only to 0, by a page with
\* data or at the start of a statement's polling.
C35_LinearBackoff ==
    /\ BackoffLaw
    /\ [][/\ BackoffLaw'
          /\ \A r \in Standalone, k \in RunIds :
                /\ DataStep(r) /\ co'[r][k].pc = "fetch" => co'[r][k].backoffMs = 0
                /\ co'[r][k].backoffMs < co[r][k].backoffMs =>
                       /\ co'[r][k].backoffMs = 0
                       /\ DataStep(r) \/ Called(fired'.ev, "submitResolved")]_vars

\* C35 witness: a coroutine sleeps the maximum delay after more not-ready
\* answers in a row than the maximum holds steps.
C35_Witness ==
    \E r \in Standalone, k \in RunIds :
        /\ co[r][k].pc = "sleep"
        /\ co[r][k].backoffMs = POLL_BACKOFF_MAX_MS
        /\ obs[r].notReady * POLL_BACKOFF_STEP_MS > POLL_BACKOFF_MAX_MS

\* The positions in ev of the polls.
Polls(ev) == {j \in 1..Len(ev) : ev[j].cb = "fetchResults"}

\* C36: the first poll of a statement asks for page 0; after a page that is
\* neither not ready nor the end of the stream the next poll asks for the page
\* number of the page's continuation URI when it holds one and for the current
\* page + 1 otherwise; after a not-ready answer the coroutine sleeps and then
\* polls the same page; after the end of the stream the statement is not
\* polled again.
C36_Cursor ==
    [][\A r \in Standalone, k \in RunIds :
          LET ev == fired'.ev
              token == co[r][k].token
              Asked(n) == Polls(ev) # {} /\ \A j \in Polls(ev) : ev[j].b = n
          IN  StepOf(r, k) =>
              /\ Cardinality(Polls(ev)) <= 1
              /\ \A j \in Polls(ev) : ev[j].a = HandleOf(k, co'[r][k].i)
              /\ Called(ev, "submitResolved") => Asked(0)
              /\ Called(ev, "sleepDone") => Asked(token)
              /\ PageStep(r, k) =>
                    IF ev[1].s \in {"NOT_READY", "NO_RESULTS"}
                    THEN /\ Polls(ev) = {}
                         /\ co'[r][k].pc = "sleep"
                         /\ co'[r][k].token = token
                    ELSE IF ev[1].s = "EOS"
                    THEN /\ Polls(ev) = {}
                         /\ co'[r][k].pc = "done" \/ co'[r][k].i = co[r][k].i + 1
                    ELSE Asked(IF ev[2].s = "result" THEN ev[2].b ELSE token + 1)]_vars

\* C36 witness: the second page of a statement held the URI of page 0, and
\* page 0 is polled again.
C36_Witness ==
    \E r \in Standalone, k \in RunIds :
        /\ fired.r = r /\ Len(fired.ev) >= 2
        /\ fired.ev[2].cb = "page" /\ fired.ev[2].s = "result" /\ fired.ev[2].b = 0
        /\ co[r][k].polls = 2 /\ co[r][k].pc = "fetch" /\ co[r][k].token = 0
        /\ \E j \in Polls(fired.ev) : fired.ev[j].b = 0

\* The position in ev of the progress report for statement i (0-based), 0
\* when ev holds none.
ProgressAt(ev, i) ==
    LET at == {j \in 1..Len(ev) : ev[j].cb = "onStatementProgress" /\ ev[j].a = i + 1}
    IN  IF at = {} THEN 0 ELSE CHOOSE j \in at : \A l \in at : j <= l

\* C37: when a chain moves to its next statement the operation handle, job id,
\* rows, schema and classification flag are cleared, the total is kept and the
\* index grows by one; the index never decreases; every request for an
\* operation (poll, cancelOperation, closeOperation), every STOP JOB and every
\* job id given to onJobId is of the statement at hand; the callbacks at the
\* move give empty rows and schema; rows are reported as the rows of the
\* statement so far plus the page's, and change at a page with data or a move.
C37_ChainClearsStatement ==
    [][\A r \in Standalone :
          LET ev == fired'.ev
              f == rn[r]
              g == rn'[r]
              moved == g.multiStatementIndex > f.multiStatementIndex
              at == ProgressAt(ev, g.multiStatementIndex)
              New(j) == moved /\ at # 0 /\ j >= at
              Op(j) == HandleOf(1, IF New(j) THEN g.multiStatementIndex
                                   ELSE f.multiStatementIndex)
              page == Called(ev, "fetchResolved") /\ ev[1].b >= 0
          IN  fired'.r = r /\ g.multiStatementTotal > 1 =>
              /\ g.multiStatementIndex >= f.multiStatementIndex
              /\ f.multiStatementTotal > 1 => g.multiStatementTotal = f.multiStatementTotal
              /\ moved =>
                    /\ g.multiStatementIndex = f.multiStatementIndex + 1
                    /\ at # 0
                    /\ g.operationHandle = 0 /\ g.jobId = 0 /\ g.allRows = 0
                    /\ g.columns = 0 /\ ~g.isQueryResultReported
              /\ \A j \in 1..Len(ev) :
                    /\ ev[j].cb \in {"fetchResults", "cancelOperation", "closeOperation",
                                     "stopJob"} => ev[j].a = Op(j)
                    /\ ev[j].cb = "onJobId" => ev[j].a \in {0, Op(j)}
                    /\ ev[j].cb = "onColumnsReceived" /\ New(j) => ev[j].a = 0
                    /\ ev[j].cb = "onRowsReceived" =>
                          ev[j].a = IF New(j) \/ ~page THEN 0
                                    ELSE Min(f.allRows + ev[1].b, MAX_ROWS)
              /\ g.allRows # f.allRows => page \/ moved]_vars

\* C37 witness: the second statement of a chain, whose page held a job id, is
\* cancelled, and STOP JOB is requested for its job.
C37_Witness ==
    \E r \in Standalone :
        /\ fired.r = r
        /\ rn[r].multiStatementTotal > 1 /\ rn[r].multiStatementIndex = 1
        /\ \E j \in 1..Len(fired.ev) :
               fired.ev[j].cb = "stopJob" /\ fired.ev[j].a = HandleOf(1, 1)

\* C38: when the document becomes visible, the cell requests an openSession
\* for every tab that has had a session on the active connection and whose
\* record is missing (no open for the tab being in flight already).
HadSession(t) == \E h \in SessionHandles : gateway.tabOf[h] = t

OpenInFlight(t) == \E c \in CallIds : calls[c].pc = "open" /\ calls[c].tab = t

VisibleStep ==
    /\ fired'.r = 0 /\ Len(fired'.ev) > 0
    /\ fired'.ev[1].cb = "visibilitychange" /\ fired'.ev[1].s = "QueryCell"

OpenRequested(ev, t) == \E i \in 1..Len(ev) : ev[i] = Ev("client.openSession", "", t, 0)

C38_VisibleReopensEveryTab ==
    [][VisibleStep =>
          \A t \in Tabs :
              (HadSession(t) /\ MapGet(gc.sessions, t) = 0 /\ ~OpenInFlight(t))
                  => OpenRequested(fired'.ev, t)]_vars

====
